---- MODULE Spec2Model ----
(***************************************************************************)
(* Model of robotu_molkit's local search engine                            *)
(* (src/src/robotu_molkit/search/searcher.py): LocalSearch.get / query /   *)
(* query_with_tanimoto, QueryRefiner, and the fingerprint similarity used  *)
(* for gating; of the helpers of the molecule, vector and prompt modules;  *)
(* and of the two PubChem downloaders (src/ingest/ingest.py,               *)
(* src/cli/ingest.py).                                                     *)
(*                                                                         *)
(* Python values are modelled as records of one shape (Val), floats as     *)
(* exact rationals <<numerator, denominator>>, relevance scores as         *)
(* integers (only their order and equality matter).                        *)
(*                                                                         *)
(* Five machines share the module:                                         *)
(*   Spec        one call at a time on a constructed LocalSearch           *)
(*   SpecCalc    one helper function applied to one input                  *)
(*   SpecCtor    LocalSearch.__init__, statement by statement              *)
(*   SpecConc    two threads calling the one LocalSearch, steps interleaved*)
(*   SpecIngest  one run() of a downloader: the queue, the limiters and    *)
(*               the worker tasks, suspension by suspension; FairIngest    *)
(*               is SpecIngest under fair scheduling                       *)
(***************************************************************************)
EXTENDS Integers, Sequences, FiniteSets, TLC

(***************************************************************************)
(* Python values                                                           *)
(***************************************************************************)
NoneV == [t |-> "none", i |-> 0, s |-> "", l |-> <<>>]
IntV(n) == [t |-> "int", i |-> n, s |-> "", l |-> <<>>]
StrV(x) == [t |-> "str", i |-> 0, s |-> x, l |-> <<>>]
ListV(xs) == [t |-> "list", i |-> 0, s |-> "", l |-> xs]

\* dict.get(key) / dict.get(key, default) on a metadata record
DictGet(meta, key, default) == IF key \in DOMAIN meta THEN meta[key] ELSE default

Min(a, b) == IF a <= b THEN a ELSE b
Max(a, b) == IF a >= b THEN a ELSE b

\* Python's s[:k]: a negative k counts from the end
PySlice(s, k) ==
    IF k >= 0 THEN SubSeq(s, 1, Min(k, Len(s)))
    ELSE SubSeq(s, 1, Max(Len(s) + k, 0))

(***************************************************************************)
(* Floats as exact rationals <<n, d>> with d > 0                           *)
(***************************************************************************)
RatGE(a, b) == a[1] * b[2] >= b[1] * a[2]
RatEq(a, b) == a[1] * b[2] = b[1] * a[2]
Zero == <<0, 1>>
One == <<1, 1>>

(***************************************************************************)
(* The loaded index: metadata records in load order (index.metadata).      *)
(***************************************************************************)
FpWidth == 1024

Rec1 == [cid |-> IntV(1), molecular_weight |-> IntV(100),
         solubility_tag |-> StrV("soluble"), ecfp |-> ListV(<<0, 1, 2>>)]
Rec2 == [cid |-> IntV(2), molecular_weight |-> IntV(250),
         solubility_tag |-> StrV("insoluble"), ecfp |-> ListV(<<0, 1, 2, 3>>)]
Rec3 == [cid |-> IntV(3)]
Rec4 == [cid |-> IntV(4), molecular_weight |-> IntV(300),
         solubility_tag |-> StrV("slightly soluble"),
         ecfp |-> ListV(<<1, 1024, -1, 1>>)]
Rec5 == [cid |-> IntV(5), molecular_weight |-> StrV("n/a"),
         solubility_tag |-> NoneV, ecfp |-> NoneV]

LoadedIndex == <<Rec1, Rec2, Rec3, Rec4, Rec5>>

VARIABLES
    metadata,        \* self.index.metadata
    pc,              \* position of the call in progress
    op,              \* "query" or "query_with_tanimoto"
    args,            \* the arguments of the call
    scaffold_names,  \* names inferred by the generative model
    nameIdx,         \* loop position in resolve_scaffolds_to_bitvectors
    ref_bvs,         \* resolved reference fingerprints
    found_cids,      \* CIDs the names resolved to and get() found, while resolving
    embedded,        \* what embed_client.embed answered in this call
    hits,            \* what index.search answered in this call
    filtered,        \* the hits that passed the filter, before the slice
    raw_results,     \* the semantic query's result inside Mode C
    kept,            \* Mode C: results before the final slice
    outcome,         \* "none", "returned" or the error raised
    result,          \* the list returned
    log,             \* collaborator calls made by the call, in order
    calc,            \* a helper function applied on its own: input and output
    ctor,            \* LocalSearch.__init__: its inputs, position and effects
    callers,         \* calls made by several threads on the one LocalSearch
    ing              \* a run of a PubChem downloader: queue, limiters, workers

\* the state of the one-call-at-a-time machine
search == <<metadata, pc, op, args, scaffold_names, nameIdx, ref_bvs, found_cids,
            embedded,
            hits, filtered, raw_results, kept, outcome, result, log>>

\* what the other machines of this module add
aux == <<calc, ctor, callers, ing>>

vars == <<search, aux>>

(***************************************************************************)
(* Collaborators                                                           *)
(***************************************************************************)
\* embed_client.embed(query_text): None, or the query vector
QVecs == {"v1", "v2"}
EmbedAnswers == {"NULL"} \cup QVecs

\* relevance of the record at position p of the index for a query vector
Score(q, p) ==
    IF q = "v1" THEN <<9, 9, 7, 5, 3>>[p]
    ELSE <<6, 8, 2, 8, 6>>[p]

\* stable insertion of hit h behind every hit scoring at least as much
RECURSIVE InsertDesc(_, _)
InsertDesc(h, s) ==
    IF s = <<>> THEN <<h>>
    ELSE IF Head(s).score >= h.score THEN <<Head(s)>> \o InsertDesc(h, Tail(s))
    ELSE <<h>> \o s

\* list.sort(key=score, reverse=True): descending, equal keys keep their order
RECURSIVE SortDescFrom(_, _)
SortDescFrom(s, acc) ==
    IF s = <<>> THEN acc ELSE SortDescFrom(Tail(s), InsertDesc(Head(s), acc))

SortByScoreDesc(s) == SortDescFrom(s, <<>>)

NoSim == <<0, 0>>
Hit(p, q) == [rec |-> p, score |-> Score(q, p), sim |-> NoSim]

\* FAISSIndexManager.search(qvec, k): min(k, N) records by descending score;
\* k <= 0 is an InvalidArgument error
Search(meta, q, k) ==
    IF k <= 0 THEN [err |-> "InvalidArgument", hits |-> <<>>]
    ELSE LET all == SortByScoreDesc([p \in 1..Len(meta) |-> Hit(p, q)])
         IN [err |-> "", hits |-> SubSeq(all, 1, Min(k, Len(all)))]

(***************************************************************************)
(* LocalSearch.query and its nested passes()                               *)
(***************************************************************************)
TupleC(lo, hi) == [shape |-> "tuple", lo |-> lo, hi |-> hi, items |-> <<>>, v |-> NoneV]
ListC(items) == [shape |-> "list", lo |-> 0, hi |-> 0, items |-> items, v |-> NoneV]
ScalarC(v) == [shape |-> "scalar", lo |-> 0, hi |-> 0, items |-> <<>>, v |-> v]

NoFilters == [none |-> TRUE, items |-> <<>>]
Filters(items) == [none |-> FALSE, items |-> items]
Item(key, cond) == [key |-> key, cond |-> cond]

\* `val in cond` for a list condition
InList(val, items) == \E j \in 1..Len(items) : items[j] = val

\* mutant: the upper end of a range is exclusive
CheckCond_ExclusiveHigh(val, cond) ==
    IF cond.shape = "tuple" THEN
        IF val.t = "none" THEN "fail"
        ELSE IF val.t # "int" THEN "TypeError"
        ELSE IF cond.lo <= val.i /\ val.i < cond.hi THEN "ok" ELSE "fail"
    ELSE IF cond.shape = "list" THEN
        IF ~InList(val, cond.items) THEN "fail" ELSE "ok"
    ELSE
        IF val # cond.v THEN "fail" ELSE "ok"

\* one iteration of the loop in passes(): "ok", "fail" or the error raised
CheckCond(val, cond) ==
    IF cond.shape = "tuple" THEN
        IF val.t = "none" THEN "fail"
        ELSE IF val.t # "int" THEN "TypeError"
        ELSE IF cond.lo <= val.i /\ val.i <= cond.hi THEN "ok" ELSE "fail"
    ELSE IF cond.shape = "list" THEN
        IF ~InList(val, cond.items) THEN "fail" ELSE "ok"
    ELSE
        IF val # cond.v THEN "fail" ELSE "ok"

RECURSIVE passesFrom(_, _, _)
passesFrom(meta, items, j) ==
    IF j > Len(items) THEN "ok"
    ELSE LET c == CheckCond(DictGet(meta, items[j].key, NoneV), items[j].cond)
         IN IF c = "ok" THEN passesFrom(meta, items, j + 1) ELSE c

passes(meta, filters) == passesFrom(meta, filters.items, 1)

\* the list comprehension [(m, s) for m, s in hits if passes(m)]
RECURSIVE FilterHits(_, _, _)
FilterHits(meta, hs, filters) ==
    IF hs = <<>> THEN [err |-> "", hits |-> <<>>]
    ELSE LET c == passes(meta[Head(hs).rec], filters)
         IN IF c = "TypeError" THEN [err |-> "TypeError", hits |-> <<>>]
            ELSE LET rest == FilterHits(meta, Tail(hs), filters)
                 IN IF rest.err # "" THEN rest
                    ELSE [err |-> "",
                          hits |-> IF c = "ok" THEN <<Head(hs)>> \o rest.hits
                                   ELSE rest.hits]

Ret(out, res, hs, fs, lg) ==
    [outcome |-> out, result |-> res, hits |-> hs, filtered |-> fs, log |-> lg]

\* lines 138-156: search, filter, slice
querySearch(meta, qvec, top_k, filters, faiss_k) ==
    LET found == Search(meta, qvec, faiss_k)
    IN IF found.err # ""
       THEN Ret(found.err, <<>>, <<>>, <<>>, <<"embed", "search">>)
       ELSE IF filters.none \/ filters.items = <<>>
       THEN Ret("returned", PySlice(found.hits, top_k), found.hits, found.hits,
                <<"embed", "search">>)
       ELSE LET flt == FilterHits(meta, found.hits, filters)
            IN IF flt.err # ""
               THEN Ret(flt.err, <<>>, found.hits, <<>>, <<"embed", "search">>)
               ELSE Ret("returned", PySlice(flt.hits, top_k), found.hits,
                        flt.hits, <<"embed", "search">>)

\* mutant: the check `if qvec is None` is missing
query_NoNullCheck(meta, emb, top_k, filters, faiss_k) ==
    querySearch(meta, emb, top_k, filters, faiss_k)

query(meta, emb, top_k, filters, faiss_k) ==
    IF emb = "NULL" THEN Ret("returned", <<>>, <<>>, <<>>, <<"embed">>)
    ELSE querySearch(meta, emb, top_k, filters, faiss_k)

(***************************************************************************)
(* Fingerprints: an ExplicitBitVect(1024) as the set of its set bits       *)
(***************************************************************************)
\* mutant: the index equal to the width is accepted
BitsFromMeta_WidthInclusive(m) ==
    LET e == DictGet(m, "ecfp", ListV(<<>>))
    IN IF e.t # "list" THEN [err |-> "TypeError", bits |-> {}]
       ELSE [err |-> "",
             bits |-> {e.l[j] : j \in {j \in 1..Len(e.l) : 0 <= e.l[j] /\ e.l[j] <= FpWidth}}]

\* for i in meta.get("ecfp", []): if 0 <= i < 1024: bv.SetBit(i)
\* (iterating a stored null raises TypeError)
BitsFromMeta(m) ==
    LET e == DictGet(m, "ecfp", ListV(<<>>))
    IN IF e.t # "list" THEN [err |-> "TypeError", bits |-> {}]
       ELSE [err |-> "",
             bits |-> {e.l[j] : j \in {j \in 1..Len(e.l) : 0 <= e.l[j] /\ e.l[j] < FpWidth}}]

\* rdkit DataStructs.TanimotoSimilarity on two bit vectors of one width, with
\* x = bits in common, y and z the bits set in each: x / (y + z - x), and the
\* library returns 1.0 when y + z - x is 0 (both vectors all-zero)
TanimotoSimilarity(a, b) ==
    LET x == Cardinality(a \cap b)
        y == Cardinality(a)
        z == Cardinality(b)
    IN IF y + z - x = 0 THEN One ELSE <<x, y + z - x>>

\* mutant: the common bits over the bits of the first vector
tanimoto_bits_OverFirst(a, b) ==
    IF Cardinality(a) # 0 THEN <<Cardinality(a \cap b), Cardinality(a)>> ELSE Zero

\* examples/search_caffeine_example.py tanimoto_bits on 0/1 arrays
tanimoto_bits(a, b) ==
    LET common == Cardinality(a \cap b)
        total == Cardinality(a \cup b)
    IN IF total # 0 THEN <<common, total>> ELSE Zero

\* Python's max(): the first of the greatest elements
RECURSIVE PyMaxFrom(_, _)
PyMaxFrom(s, best) ==
    IF s = <<>> THEN best
    ELSE PyMaxFrom(Tail(s), IF RatGE(best, Head(s)) THEN best ELSE Head(s))

PyMax(s) == PyMaxFrom(Tail(s), Head(s))

\* mutant: only the first reference is compared
MaxSim_FirstReferenceOnly(bv, refs) ==
    IF refs # <<>> THEN TanimotoSimilarity(bv, refs[1]) ELSE Zero

\* sims = [...]; max_sim = max(sims) if sims else 0.0
MaxSim(bv, refs) ==
    LET sims == [j \in 1..Len(refs) |-> TanimotoSimilarity(bv, refs[j])]
    IN IF sims # <<>> THEN PyMax(sims) ELSE Zero

\* if max_sim >= sim_threshold
GatePasses(max_sim, sim_threshold) == RatGE(max_sim, sim_threshold)

\* the loop over raw_results: keeps (meta, score, max_sim) for gated candidates
RECURSIVE GateLoop(_, _, _, _)
GateLoop(meta, raw, refs, thr) ==
    IF raw = <<>> THEN [err |-> "", results |-> <<>>]
    ELSE LET bv == BitsFromMeta(meta[Head(raw).rec])
         IN IF bv.err # "" THEN [err |-> bv.err, results |-> <<>>]
            ELSE LET rest == GateLoop(meta, Tail(raw), refs, thr)
                     ms == MaxSim(bv.bits, refs)
                 IN IF rest.err # "" THEN rest
                    ELSE [err |-> "",
                          results |->
                              IF GatePasses(ms, thr)
                              THEN <<[rec |-> Head(raw).rec, score |-> Head(raw).score,
                                      sim |-> ms]>> \o rest.results
                              ELSE rest.results]

\* results.sort(key=lambda x: x[1], reverse=True)
SortResults(results) == SortByScoreDesc(results)

\* return results[:top_k]
Truncate(results, top_k) == PySlice(results, top_k)

(***************************************************************************)
(* QueryRefiner                                                            *)
(***************************************************************************)
\* str.strip() on the strings the modelled responses hold
Strip(x) ==
    IF x = " caffeine " THEN "caffeine"
    ELSE IF x = "  " THEN ""
    ELSE x

\* [s.strip() for s in vals if isinstance(s, str) and s.strip()]
RECURSIVE StrippedNames(_)
StrippedNames(vals) ==
    IF vals = <<>> THEN <<>>
    ELSE IF Head(vals).t = "str" /\ Strip(Head(vals).s) # ""
         THEN <<Strip(Head(vals).s)>> \o StrippedNames(Tail(vals))
         ELSE StrippedNames(Tail(vals))

\* what a JSON decoder makes of a text: JSONDecodeError, a value that is not an
\* object, or an object with or without the key (vals: the value under the key)
JsonError == [kind |-> "error", has |-> FALSE, vals |-> NoneV]
JsonNonDict == [kind |-> "nondict", has |-> FALSE, vals |-> NoneV]
JsonDict(vals) == [kind |-> "dict", has |-> TRUE, vals |-> vals]
JsonDictNoKey == [kind |-> "dict", has |-> FALSE, vals |-> NoneV]
\* re.search finds no brace-delimited block holding "key"
NoMatch == [kind |-> "nomatch", has |-> FALSE, vals |-> NoneV]

\* a response text, by what the two decoders find in it:
\* strict = JSONDecoder().raw_decode(txt), block = json.loads(match.group(0))
Response(strict, block) == [strict |-> strict, block |-> block]

\* how a piece of code ends: it returns names, falls through, or raises
Returns(names) == [k |-> "return", names |-> names, exc |-> ""]
Falls == [k |-> "fall", names |-> <<>>, exc |-> ""]
Raises(exc) == [k |-> "raise", names |-> <<>>, exc |-> exc]

\* lines 71-75: obj, _ = raw_decode(txt); vals = obj.get(key); if list: return
StrictStage(j) ==
    IF j.kind = "error" THEN Raises("JSONDecodeError")
    ELSE IF j.kind # "dict" THEN Raises("AttributeError")
    ELSE LET vals == IF j.has THEN j.vals ELSE NoneV
         IN IF vals.t = "list" THEN Returns(StrippedNames(vals.l)) ELSE Falls

\* lines 83-86: obj = json.loads(block); vals = obj.get(key, []); if list: return
BlockStage(j) ==
    IF j.kind = "error" THEN Raises("JSONDecodeError")
    ELSE IF j.kind # "dict" THEN Raises("AttributeError")
    ELSE LET vals == IF j.has THEN j.vals ELSE ListV(<<>>)
         IN IF vals.t = "list" THEN Returns(StrippedNames(vals.l)) ELSE Falls

\* mutant: only a decoding error is caught
ExceptPass_DecodeErrorOnly(r) ==
    IF r.k = "raise" /\ r.exc = "JSONDecodeError" THEN Falls ELSE r

\* except Exception: pass
ExceptPass(r) == IF r.k = "raise" THEN Falls ELSE r

\* QueryRefiner._extract_json_list(txt, "canonical_names")
extract_json_list(response) ==
    LET strict == ExceptPass(StrictStage(response.strict))
    IN IF strict.k # "fall" THEN strict
       ELSE IF response.block.kind = "nomatch" THEN Returns(<<>>)
       ELSE LET block == ExceptPass(BlockStage(response.block))
            IN IF block.k # "fall" THEN block ELSE Returns(<<>>)

\* LocalSearch.get: the position of the first record with this cid, 0 for KeyError
RECURSIVE getFrom(_, _, _)
getFrom(meta, cid, p) ==
    IF p > Len(meta) THEN 0
    ELSE IF DictGet(meta[p], "cid", NoneV) = IntV(cid) THEN p
    ELSE getFrom(meta, cid, p + 1)

get(meta, cid) == getFrom(meta, cid, 1)

\* get_compounds(name, "name", listkey_count=1): raises, no compound, or a CID
Answer(kind, cid) == [kind |-> kind, cid |-> cid]

\* mutant: a failure for one name empties the list built so far
ResolveOne_FailureClearsList(meta, vectors, ans) ==
    IF ans.kind = "raise" THEN <<>>
    ELSE IF ans.kind = "empty" THEN vectors
    ELSE LET p == get(meta, ans.cid)
         IN IF p = 0 THEN <<>>
            ELSE LET bv == BitsFromMeta(meta[p])
                 IN IF bv.err # "" THEN vectors
                    ELSE Append(vectors, bv.bits)

\* one iteration of the loop of resolve_scaffolds_to_bitvectors: the vectors after it
ResolveOne(meta, vectors, ans) ==
    IF ans.kind = "raise" THEN vectors
    ELSE IF ans.kind = "empty" THEN vectors
    ELSE LET p == get(meta, ans.cid)
         IN IF p = 0 THEN vectors
            ELSE LET bv == BitsFromMeta(meta[p])
                 IN IF bv.err # "" THEN vectors
                    ELSE Append(vectors, bv.bits)

(***************************************************************************)
(* Inputs of the calls and answers of the collaborators                    *)
(***************************************************************************)
MaxTopK == 3
MaxFaissK == 5
TopKs == -1..MaxTopK
FaissKs == 0..MaxFaissK
Thresholds == {Zero, <<7, 10>>, One}

FilterChoices ==
    { NoFilters,
      Filters(<<>>),
      Filters(<<Item("molecular_weight", TupleC(0, 250))>>),
      Filters(<<Item("solubility_tag",
                     ListC(<<StrV("soluble"), StrV("slightly soluble")>>))>>),
      Filters(<<Item("molecular_weight", TupleC(0, 250)),
                Item("solubility_tag", ScalarC(StrV("soluble")))>>),
      Filters(<<Item("solubility_tag", ScalarC(NoneV))>>),
      Filters(<<Item("logp", ListC(<<NoneV, IntV(1)>>))>>),
      Filters(<<Item("logp", TupleC(0, 5))>>),
      Filters(<<Item("cid", ScalarC(IntV(3)))>>) }

ThreeNames == ListV(<<StrV("caffeine"), StrV("theophylline"), StrV("theobromine")>>)
FourNames ==
    ListV(<<StrV("caffeine"), StrV("theophylline"), StrV("theobromine"),
            StrV("paraxanthine")>>)
MessyNames == ListV(<<StrV(" caffeine "), StrV("  "), IntV(42), StrV("theophylline")>>)
OneName == ListV(<<StrV("caffeine")>>)

\* response texts of the generative model
Responses ==
    { \* {"canonical_names": ["caffeine", "theophylline", "theobromine"]}
      Response(JsonDict(ThreeNames), JsonDict(ThreeNames)),
      \* {"canonical_names": ["caffeine", "theophylline", "theobromine", "paraxanthine"]}
      Response(JsonDict(FourNames), JsonDict(FourNames)),
      \* {"canonical_names": []}
      Response(JsonDict(ListV(<<>>)), JsonDict(ListV(<<>>))),
      \* Here you go: {"canonical_names": [" caffeine ", "  ", 42, "theophylline"]}
      Response(JsonError, JsonDict(MessyNames)),
      \* I do not know.   (and {'canonical_names': ['caffeine']}: the block
      \* pattern asks for the key in double quotes)
      Response(JsonError, NoMatch),
      \* {"canonical_names": "caffeine"}
      Response(JsonDict(StrV("caffeine")), JsonDict(StrV("caffeine"))),
      \* {"result": {"canonical_names": ["caffeine"]}}
      Response(JsonDictNoKey, JsonDict(OneName)),
      \* {"answer": "canonical_names"}
      Response(JsonDictNoKey, JsonDictNoKey),
      \* ["caffeine"]
      Response(JsonNonDict, NoMatch),
      \* 3 {"canonical_names": ["caffeine"]}
      Response(JsonNonDict, JsonDict(OneName)),
      \* {"canonical_names": ['caffeine']}
      Response(JsonError, JsonError) }

ResolveAnswers ==
    { Answer("raise", 0), Answer("empty", 0), Answer("cid", 1), Answer("cid", 3),
      Answer("cid", 5), Answer("cid", 7) }

Args(top_k, faiss_k, filters, thr) ==
    [top_k |-> top_k, faiss_k |-> faiss_k, filters |-> filters, sim_threshold |-> thr]

(***************************************************************************)
(* Helper functions applied on their own: the function, its inputs, its    *)
(* output once applied                                                     *)
(***************************************************************************)
Calc(fn, x, y) == [fn |-> fn, x |-> x, y |-> y, out |-> <<>>, done |-> FALSE]
NoCalc == Calc("none", {}, {})

\* fingerprints as the sets of their set bits, over the first bits of the width
MaxBit == 3
Fingerprints == SUBSET (0..MaxBit)

\* stored ecfp index lists: in range, at both edges of the range, outside it
MaxEcfpLen == 3
EcfpIndices == {-1, 0, 1, FpWidth - 1, FpWidth}
RECURSIVE SeqsUpTo(_, _)
SeqsUpTo(S, n) ==
    IF n = 0 THEN {<<>>}
    ELSE LET shorter == SeqsUpTo(S, n - 1)
         IN shorter \cup {Append(q, x) : q \in shorter, x \in S}
EcfpLists == SeqsUpTo(EcfpIndices, MaxEcfpLen)
\* index records of one compound: with a stored list, and without the field
EcfpRecords == {[cid |-> IntV(1), ecfp |-> ListV(e)] : e \in EcfpLists}
NoEcfpRecord == [cid |-> IntV(1)]

(***************************************************************************)
(* LocalSearch.__init__                                                    *)
(***************************************************************************)
\* the record file: whether it exists, and the vector length of each of its lines
Source(exists, dims) == [exists |-> exists, dims |-> dims]

\* the constructor's inputs, position and effects so far: the embedding client
\* created, the file read, the expected dimension, the vectors in the index
Ctor(api_key, project_id, source) ==
    [pos |-> "credentials", api_key |-> api_key, project_id |-> project_id,
     source |-> source, client |-> FALSE, read |-> FALSE, dim |-> 0, index |-> <<>>,
     err |-> "", usable |-> FALSE, log |-> <<>>]

\* the constructor has returned a LocalSearch over the five records of the index
Constructed ==
    [Ctor("set", "set", Source(TRUE, <<2, 2, 2, 2, 2>>)) EXCEPT
        !.pos = "constructed", !.client = TRUE, !.read = TRUE, !.dim = 2,
        !.index = <<2, 2, 2, 2, 2>>, !.usable = TRUE,
        !.log = <<"CredentialsManager.load", "WatsonxEmbeddingClient", "open",
                  "FAISSIndexManager", "load_jsonl">>]

\* mutant: the constructor stops only when both credentials are missing
credentialsMissing_Both(api_key, project_id) ==
    api_key \in {"None", ""} /\ project_id \in {"None", ""}

\* if not api_key or not project_id
credentialsMissing(api_key, project_id) ==
    api_key \in {"None", ""} \/ project_id \in {"None", ""}

\* mutant: the dimension is read off the last line
firstDim_LastLine(lines) ==
    IF lines = <<>> THEN [err |-> "IndexError", dim |-> 0]
    ELSE [err |-> "", dim |-> lines[Len(lines)]]

\* first = json.loads(...splitlines()[0]); dim = len(first["vector"])
firstDim(lines) ==
    IF lines = <<>> THEN [err |-> "IndexError", dim |-> 0]
    ELSE [err |-> "", dim |-> lines[1]]

\* FAISSIndexManager(dim).load_jsonl(path): LoadError if the source is empty or
\* any vector's length differs from dim, else every record is in the index
load_jsonl(dim, lines) ==
    IF lines = <<>> \/ \E j \in 1..Len(lines) : lines[j] # dim
    THEN [err |-> "LoadError", index |-> <<>>]
    ELSE [err |-> "", index |-> lines]

(***************************************************************************)
(* Several threads calling the one LocalSearch                             *)
(***************************************************************************)
Threads == {"t1", "t2"}

\* a call as its thread sees it: parameters, collaborator answers, locals
IdleCall ==
    [pc |-> "idle", op |-> "none", top_k |-> 0, faiss_k |-> 0, sim_threshold |-> Zero,
     cid |-> 0, ans |-> Answer("empty", 0), emb |-> "unset", refs |-> <<>>,
     hits |-> <<>>, raw |-> <<>>, outcome |-> "none", result |-> <<>>]

\* filters: the dict object the callers pass; given: its content when first passed
Callers(th, filters) == [th |-> th, filters |-> filters, given |-> filters]
NoCallers == Callers([t \in Threads |-> IdleCall], NoFilters)

\* mutant: the hits are kept on the instance, where the first thread's are read
Locals_HitsOnInstance(th, t) == [th[t] EXCEPT !.hits = th["t1"].hits]

\* qvec, hits, filtered, ref_bvs, raw_results, results are locals of the call
Locals(th, t) == th[t]

\* LocalSearch.get as a call: the record found, or KeyError
getCall(meta, cid) ==
    LET p == get(meta, cid)
    IN IF p = 0 THEN [outcome |-> "KeyError", result |-> <<>>]
       ELSE [outcome |-> "returned", result |-> <<[rec |-> p, score |-> 0, sim |-> NoSim]>>]

\* lines 140-156 of query: the filter and the slice, on the hits of the search
queryFilter(meta, hs, top_k, filters) ==
    IF filters.none \/ filters.items = <<>>
    THEN [outcome |-> "returned", result |-> PySlice(hs, top_k)]
    ELSE LET flt == FilterHits(meta, hs, filters)
         IN IF flt.err # "" THEN [outcome |-> flt.err, result |-> <<>>]
            ELSE [outcome |-> "returned", result |-> PySlice(flt.hits, top_k)]

\* lines 186-202 of query_with_tanimoto: gate, sort, slice
gateSortSlice(meta, raw, refs, thr, top_k) ==
    LET g == GateLoop(meta, raw, refs, thr)
    IN IF g.err # "" THEN [outcome |-> g.err, result |-> <<>>]
       ELSE [outcome |-> "returned", result |-> Truncate(SortResults(g.results), top_k)]

(***************************************************************************)
(* State machine: one call at a time on one LocalSearch                    *)
(***************************************************************************)
(***************************************************************************)
(* The two PubChem downloaders: src/ingest/ingest.py (prog "ingest": four  *)
(* requests per CID, raw and parsed file) and src/cli/ingest.py (prog      *)
(* "cli": one request per CID).  A CID token is a sequence of characters.  *)
(***************************************************************************)
MAX_RPS == 5
MAX_RPM == 400

\* re.fullmatch(r"\d+", cid)
IsDigits(cid) ==
    /\ cid # <<>>
    /\ \A j \in 1 .. Len(cid) :
          cid[j] \in {"0", "1", "2", "3", "4", "5", "6", "7", "8", "9"}

\* mutant: run() of ingest.py puts every token on the queue (a CID is queued
\* with its position in the list; the sentinel None has position 0)
RunQueue_NoFilter(prog, cids, concurrency) ==
    [pos \in 1 .. Len(cids) |-> [none |-> FALSE, cid |-> cids[pos], pos |-> pos]]
        \o [k \in 1 .. concurrency |-> [none |-> TRUE, cid |-> <<>>, pos |-> 0]]

\* the queue run() builds: for cid in cids: (ingest.py: if re.fullmatch) 
\* queue.put_nowait(cid); then one sentinel per worker
RunQueue(prog, cids, concurrency) ==
    SelectSeq([pos \in 1 .. Len(cids) |-> [none |-> FALSE, cid |-> cids[pos], pos |-> pos]],
              LAMBDA item : prog = "cli" \/ IsDigits(item.cid))
        \o [k \in 1 .. concurrency |-> [none |-> TRUE, cid |-> <<>>, pos |-> 0]]

\* the requests of one CID, in the order of process_cid / fetch
Requests(prog) ==
    IF prog = "ingest" THEN <<"record", "synonyms", "properties", "pug_view">>
    ELSE <<"compound">>

\* mutant: only ClientResponseError is handled
get_json_HttpErrorOnly(answer) ==
    IF answer = "http_error" THEN [raised |-> FALSE, v |-> "None"]
    ELSE IF answer = "error" THEN [raised |-> TRUE, v |-> "None"]
    ELSE [raised |-> FALSE, v |-> answer]

\* _get_json after the request was sent: the JSON document of a 2xx answer;
\* None, after a warning, on ClientResponseError and on any other Exception
get_json(answer) ==
    IF answer \in {"http_error", "error"} THEN [raised |-> FALSE, v |-> "None"]
    ELSE [raised |-> FALSE, v |-> answer]

\* fetch of the cli downloader logs and re-raises
fetch(answer) == [raised |-> answer \in {"http_error", "error"}, v |-> answer]

\* build_parsed: None for synonyms, properties or PUG-View is handled
\* (if props / if view / if synonyms); [][0] on an empty "Properties" list
\* raises IndexError
build_parsed(raw, synonyms, props, view) == [raised |-> props = "json_empty_list"]

\* a worker task: its position, the request of its item it is at, the
\* limiters whose `async with` block it is in, the documents process_cid has
\* (its locals), what the handling of its latest item did, in order (a
\* request sent, with the limiter blocks the worker was in; a document or
\* None returned; a file written; an exception raised), the items it has
\* dequeued (by position, 0 for a sentinel), the exceptions its loop caught
NewWorker ==
    [pc |-> "get", req |-> 0, inside |-> {}, docs |-> <<>>, trail |-> <<>>,
     taken |-> <<>>, caught |-> 0]

MaxCids == 2
MaxWorkers == 2

\* a call of run(cids, ..., concurrency) before its first statement
Ingest(prog, cids, concurrency) ==
    [prog |-> prog, cids |-> cids, concurrency |-> concurrency, run |-> "called",
     queue |-> <<>>, unfinished |-> 0, sec |-> 0, min |-> 0,
     w |-> [k \in 1 .. MaxWorkers |-> [NewWorker EXCEPT !.pc = "none"]]]

InitSearch ==
    /\ metadata = LoadedIndex
    /\ pc = "idle"
    /\ op = "none"
    /\ args = Args(0, 0, NoFilters, Zero)
    /\ scaffold_names = <<>>
    /\ nameIdx = 1
    /\ ref_bvs = <<>>
    /\ found_cids = <<>>
    /\ embedded = "unset"
    /\ hits = <<>>
    /\ filtered = <<>>
    /\ raw_results = <<>>
    /\ kept = <<>>
    /\ outcome = "none"
    /\ result = <<>>
    /\ log = <<>>

Init ==
    /\ InitSearch
    /\ ing = Ingest("none", <<>>, 0)
    /\ calc = NoCalc
    /\ ctor = Constructed
    /\ callers = NoCallers

\* LocalSearch.query called by the user: the whole handler
Query ==
    /\ pc = "idle"
    /\ \E top_k \in TopKs, faiss_k \in FaissKs, filters \in FilterChoices,
          emb \in EmbedAnswers :
          LET r == query(metadata, emb, top_k, filters, faiss_k)
          IN /\ op' = "query"
             /\ args' = Args(top_k, faiss_k, filters, Zero)
             /\ embedded' = emb
             /\ hits' = r.hits
             /\ filtered' = r.filtered
             /\ outcome' = r.outcome
             /\ result' = r.result
             /\ log' = r.log
    /\ scaffold_names' = <<>>
    /\ nameIdx' = 1
    /\ ref_bvs' = <<>>
    /\ found_cids' = <<>>
    /\ raw_results' = <<>>
    /\ kept' = <<>>
    /\ pc' = "done"
    /\ UNCHANGED metadata
    /\ UNCHANGED aux

\* query_with_tanimoto is entered (lines 166-173 build the generative model)
QwtCall ==
    /\ pc = "idle"
    /\ \E top_k \in TopKs, faiss_k \in FaissKs, filters \in FilterChoices,
          thr \in Thresholds :
          args' = Args(top_k, faiss_k, filters, thr)
    /\ op' = "query_with_tanimoto"
    /\ pc' = "infer"
    /\ scaffold_names' = <<>>
    /\ nameIdx' = 1
    /\ ref_bvs' = <<>>
    /\ found_cids' = <<>>
    /\ embedded' = "unset"
    /\ hits' = <<>>
    /\ filtered' = <<>>
    /\ raw_results' = <<>>
    /\ kept' = <<>>
    /\ outcome' = "none"
    /\ result' = <<>>
    /\ log' = <<>>
    /\ UNCHANGED metadata
    /\ UNCHANGED aux

\* extract_scaffolds_with_granite: model.generate_text raises or answers
QwtInfer ==
    /\ pc = "infer"
    /\ log' = Append(log, "generate_text")
    /\ \/ /\ outcome' = "RemoteError"
          /\ pc' = "done"
          /\ UNCHANGED scaffold_names
       \/ \E response \in Responses :
             LET names == extract_json_list(response)
             IN IF names.k = "raise"
                THEN /\ outcome' = names.exc
                     /\ pc' = "done"
                     /\ UNCHANGED scaffold_names
                ELSE /\ scaffold_names' = names.names
                     /\ pc' = "resolve"
                     /\ UNCHANGED outcome
    /\ UNCHANGED <<metadata, op, args, nameIdx, ref_bvs, found_cids, embedded, hits,
                   filtered, raw_results, kept, result>>
    /\ UNCHANGED aux

\* one iteration of the loop of resolve_scaffolds_to_bitvectors
QwtResolve ==
    /\ pc = "resolve"
    /\ nameIdx <= Len(scaffold_names)
    /\ \E ans \in ResolveAnswers :
          /\ ref_bvs' = ResolveOne(metadata, ref_bvs, ans)
          /\ found_cids' = IF ans.kind = "cid" /\ get(metadata, ans.cid) # 0
                           THEN Append(found_cids, ans.cid)
                           ELSE found_cids
    /\ nameIdx' = nameIdx + 1
    /\ log' = Append(log, "get_compounds")
    /\ UNCHANGED <<metadata, pc, op, args, scaffold_names, embedded, hits, filtered,
                   raw_results, kept, outcome, result>>
    /\ UNCHANGED aux

\* raw_results = self.query(query_text, top_k=faiss_k, filters, faiss_k=faiss_k)
QwtSemantic ==
    /\ pc = "resolve"
    /\ nameIdx > Len(scaffold_names)
    /\ \E emb \in EmbedAnswers :
          LET r == query(metadata, emb, args.faiss_k, args.filters, args.faiss_k)
          IN /\ embedded' = emb
             /\ hits' = r.hits
             /\ filtered' = r.filtered
             /\ log' = log \o r.log
             /\ IF r.outcome = "returned"
                THEN /\ raw_results' = r.result
                     /\ pc' = "gate"
                     /\ UNCHANGED outcome
                ELSE /\ outcome' = r.outcome
                     /\ pc' = "done"
                     /\ UNCHANGED raw_results
    /\ found_cids' = <<>>
    /\ UNCHANGED <<metadata, op, args, scaffold_names, nameIdx, ref_bvs, kept, result>>
    /\ UNCHANGED aux

\* the similarity gate, the sort and the slice; returns
QwtGate ==
    /\ pc = "gate"
    /\ LET g == GateLoop(metadata, raw_results, ref_bvs, args.sim_threshold)
       IN IF g.err # ""
          THEN /\ outcome' = g.err
               /\ UNCHANGED <<kept, result>>
          ELSE /\ kept' = SortResults(g.results)
               /\ result' = Truncate(SortResults(g.results), args.top_k)
               /\ outcome' = "returned"
    /\ pc' = "done"
    /\ UNCHANGED <<metadata, op, args, scaffold_names, nameIdx, ref_bvs, found_cids,
                   embedded, hits, filtered, raw_results, log>>
    /\ UNCHANGED aux

\* the caller has the result (or the exception); the call's locals are gone
Finish ==
    /\ pc = "done"
    /\ pc' = "idle"
    /\ op' = "none"
    /\ args' = Args(0, 0, NoFilters, Zero)
    /\ scaffold_names' = <<>>
    /\ nameIdx' = 1
    /\ ref_bvs' = <<>>
    /\ found_cids' = <<>>
    /\ embedded' = "unset"
    /\ hits' = <<>>
    /\ filtered' = <<>>
    /\ raw_results' = <<>>
    /\ kept' = <<>>
    /\ outcome' = "none"
    /\ result' = <<>>
    /\ log' = <<>>
    /\ UNCHANGED metadata
    /\ UNCHANGED aux

Next ==
    Query \/ QwtCall \/ QwtInfer \/ QwtResolve \/ QwtSemantic \/ QwtGate \/ Finish

Spec == Init /\ [][Next]_vars

(***************************************************************************)
(* State machine: one helper function applied to one input                 *)
(***************************************************************************)
(***************************************************************************)
(* Quantum.homo_lumo_gap (src/src/robotu_molkit/molecule.py).  Orbital     *)
(* energies are modelled as integers: only their differences matter.       *)
(***************************************************************************)
\* seq[i] of Python: a negative i counts from the end, anything outside
\* -len .. len-1 raises IndexError
PyIndex(xs, i) ==
    LET n == Len(xs)
    IN IF 0 <= i /\ i < n THEN [raised |-> FALSE, v |-> xs[i + 1]]
       ELSE IF -n <= i /\ i < 0 THEN [raised |-> FALSE, v |-> xs[n + i + 1]]
       ELSE [raised |-> TRUE, v |-> 0]

homo_lumo_gap(self) ==
    IF self.mo_energies = NoneV \/ self.homo_index = NoneV THEN NoneV
    ELSE LET lumo == PyIndex(self.mo_energies.l, self.homo_index.i + 1)
             homo == PyIndex(self.mo_energies.l, self.homo_index.i)
         IN IF lumo.raised \/ homo.raised THEN NoneV
            ELSE IntV(lumo.v - homo.v)

MaxOrbitals == 3
\* Quantum(...).homo_lumo_gap is read
ApplyGap ==
    /\ calc.fn = "homo_lumo_gap"
    /\ ~calc.done
    /\ calc' = [calc EXCEPT !.out = homo_lumo_gap(calc.x), !.done = TRUE]
    /\ UNCHANGED <<search, ctor, callers, ing>>

(***************************************************************************)
(* WatsonxIndex._get_embeddings                                            *)
(* (src/src/robotu_molkit/vector/watsonx_index.py)                         *)
(***************************************************************************)
FloatV(n) == [t |-> "float", i |-> n, s |-> "", l |-> <<>>]

\* the vector the embedding model gives a text: two components, different
\* for different texts
EmbedVector(text) ==
    IF text = "t1" THEN ListV(<<FloatV(1), FloatV(2)>>)
    ELSE ListV(<<FloatV(3), FloatV(4)>>)

\* Embeddings.embed_documents(texts=texts): one vector per text, in the
\* order of the texts, or an exception of the service
embed_documents(texts, service) ==
    IF service = "error" THEN [raised |-> TRUE, v |-> NoneV]
    ELSE [raised |-> FALSE,
          v |-> ListV([j \in 1 .. Len(texts) |-> EmbedVector(texts[j])])]

\* vector = None; try: vector = embed_documents(texts)[0]; except Exception:
\* logging.warning(...); return vector
get_embeddings(texts, service) ==
    LET docs == embed_documents(texts, service)
        first == IF docs.raised THEN docs ELSE PyIndex(docs.v.l, 0)
    IN IF first.raised THEN [returned |-> NoneV, logged |-> TRUE]
       ELSE [returned |-> first.v, logged |-> FALSE]

MaxTexts == 2
\* self._get_embeddings(texts) is called
ApplyGetEmbeddings ==
    /\ calc.fn = "get_embeddings"
    /\ ~calc.done
    /\ calc' = [calc EXCEPT !.out = get_embeddings(calc.x, calc.y), !.done = TRUE]
    /\ UNCHANGED <<search, ctor, callers, ing>>

(***************************************************************************)
(* WatsonxIndex._chunk_text.  A text is a sequence of characters.          *)
(***************************************************************************)
\* text.split(): the maximal runs of characters that are not whitespace
RECURSIVE SplitFrom(_, _, _, _)
SplitFrom(text, i, word, tokens) ==
    LET closed == IF word = <<>> THEN tokens ELSE Append(tokens, word)
    IN IF i > Len(text) THEN closed
       ELSE IF text[i] = " " THEN SplitFrom(text, i + 1, <<>>, closed)
       ELSE SplitFrom(text, i + 1, Append(word, text[i]), tokens)

split(text) == SplitFrom(text, 1, <<>>, <<>>)

\* " ".join(tokens)
RECURSIVE join(_)
join(tokens) ==
    IF tokens = <<>> THEN <<>>
    ELSE IF Len(tokens) = 1 THEN tokens[1]
    ELSE tokens[1] \o <<" ">> \o join(Tail(tokens))

\* for i in range(0, len(tokens), step): append the chunk of tokens[i : i +
\* chunk_size]; break once i + chunk_size >= len(tokens)
RECURSIVE ChunkLoop(_, _, _, _, _)
ChunkLoop(tokens, i, step, chunk_size, chunks) ==
    IF i >= Len(tokens) THEN chunks
    ELSE LET chunk == join(SubSeq(tokens, i + 1, Min(i + chunk_size, Len(tokens))))
             appended == Append(chunks, chunk)
         IN IF i + chunk_size >= Len(tokens) THEN appended
            ELSE ChunkLoop(tokens, i + step, step, chunk_size, appended)

chunk_text_StepIsChunkSize(text, chunk_size, overlap) ==
    ChunkLoop(split(text), 0, chunk_size, chunk_size, <<>>)

chunk_text(text, chunk_size, overlap) ==
    ChunkLoop(split(text), 0, chunk_size - overlap, chunk_size, <<>>)

MaxTextLen == 9
MaxChunkSize == 3
\* self._chunk_text(text) is called
ApplyChunkText ==
    /\ calc.fn = "chunk_text"
    /\ ~calc.done
    /\ calc' = [calc EXCEPT
                   !.out = chunk_text(calc.x, calc.y.chunk_size, calc.y.overlap),
                   !.done = TRUE]
    /\ UNCHANGED <<search, ctor, callers, ing>>

(***************************************************************************)
(* PromptManager (src/src/robotu_molkit/vector/summary_generator.py).      *)
(* The files of one prompt name: the editable prompt and vars files and    *)
(* their default copies, each one missing or holding its content.          *)
(***************************************************************************)
Missing == "<missing>"

\* Path.read_text(): the content decoded, line ends translated to "\n"
read_text(content) == IF content = "A\r\n" THEN "A\n" ELSE content

\* json.loads(text): the value of the document, or JSONDecodeError
json_loads(text) ==
    IF text \in {"{\"v\": 1}", "{ \"v\" : 1 }"} THEN [exc |-> "none", v |-> "v=1"]
    ELSE IF text = "{\"v\": 2}" THEN [exc |-> "none", v |-> "v=2"]
    ELSE [exc |-> "JSONDecodeError", v |-> ""]

load_template(files) ==
    IF files.prompt = Missing THEN [exc |-> "FileNotFoundError", v |-> ""]
    ELSE [exc |-> "none", v |-> read_text(files.prompt)]

load_vars(files) ==
    IF files.vars = Missing THEN [exc |-> "FileNotFoundError", v |-> ""]
    ELSE json_loads(read_text(files.vars))

restore_default_PromptOnly(files) ==
    IF files.default_prompt = Missing \/ files.default_vars = Missing
    THEN [files |-> files, exc |-> "FileNotFoundError"]
    ELSE [files |-> [files EXCEPT !.prompt = read_text(files.default_prompt)],
          exc |-> "none"]

\* for suffix in ("prompt.txt", "vars.json"): raise FileNotFoundError if the
\* default is missing, else dst.write_text(src.read_text())
restore_default(files) ==
    IF files.default_prompt = Missing
    THEN [files |-> files, exc |-> "FileNotFoundError"]
    ELSE LET prompt_done == [files EXCEPT !.prompt = read_text(files.default_prompt)]
         IN IF files.default_vars = Missing
            THEN [files |-> prompt_done, exc |-> "FileNotFoundError"]
            ELSE [files |-> [prompt_done EXCEPT !.vars = read_text(files.default_vars)],
                  exc |-> "none"]

\* PromptManager.restore_default(name) is called, then load_template(name)
\* and load_vars(name)
ApplyRestoreDefault ==
    /\ calc.fn = "restore_default"
    /\ ~calc.done
    /\ LET restored == restore_default(calc.x)
       IN calc' = [calc EXCEPT
                      !.out = [files |-> restored.files,
                               exc |-> restored.exc,
                               template |-> load_template(restored.files),
                               vars |-> load_vars(restored.files)],
                      !.done = TRUE]
    /\ UNCHANGED <<search, ctor, callers, ing>>

ReconstructInputs ==
    {Calc("reconstruct", m, {}) : m \in EcfpRecords} \cup {Calc("reconstruct", NoEcfpRecord, {})}
ExtractInputs == {Calc("extract_json_list", response, {}) : response \in Responses}
TanimotoInputs == {Calc("tanimoto_bits", a, b) : a \in Fingerprints, b \in Fingerprints}

InitCalc ==
    /\ InitSearch
    /\ ing = Ingest("none", <<>>, 0)
    /\ ctor = Constructed
    /\ callers = NoCallers
    /\ \/ calc \in TanimotoInputs
       \/ calc \in ReconstructInputs
       \/ calc \in ExtractInputs
       \* Quantum objects: each field absent or present, lists of up to
       \* MaxOrbitals energies, indexes on both sides of the list's range
       \/ \E mo \in {NoneV} \cup {ListV(e) : e \in SeqsUpTo({0, 1, 3}, MaxOrbitals)},
             h \in {NoneV} \cup {IntV(i) : i \in (-(MaxOrbitals + 1)) .. MaxOrbitals} :
             calc = Calc("homo_lumo_gap", [mo_energies |-> mo, homo_index |-> h], {})
       \* lists of texts; the embedding service answers or fails
       \/ \E texts \in SeqsUpTo({"t1", "t2"}, MaxTexts), service \in {"ok", "error"} :
             calc = Calc("get_embeddings", texts, service)
       \* texts of words and blanks; chunk_size > overlap >= 0
       \/ \E text \in SeqsUpTo({"a", " "}, MaxTextLen),
             chunk_size \in 1 .. MaxChunkSize, overlap \in 0 .. MaxChunkSize :
             /\ chunk_size > overlap
             /\ calc = Calc("chunk_text", text,
                            [chunk_size |-> chunk_size, overlap |-> overlap])
       \* the files of a prompt: editable copies missing, edited or corrupted;
       \* defaults missing or pristine
       \/ \E files \in [prompt : {Missing, "A\n", "B\n"},
                         vars : {Missing, "{\"v\": 1}", "{\"v\": "},
                         default_prompt : {Missing, "A\n", "A\r\n"},
                         default_vars : {Missing, "{ \"v\" : 1 }", "{\"v\": 2}"}] :
             calc = Calc("restore_default", files, {})

\* tanimoto_bits(a, b) is called
ApplyTanimotoBits ==
    /\ calc.fn = "tanimoto_bits"
    /\ ~calc.done
    /\ calc' = [calc EXCEPT !.out = tanimoto_bits(calc.x, calc.y), !.done = TRUE]
    /\ UNCHANGED <<search, ctor, callers, ing>>

\* the fingerprint of one index record is rebuilt, as the reference found for a
\* resolved name (lines 54-60) and as a candidate of the gate (lines 189-193)
ApplyReconstruct ==
    /\ calc.fn = "reconstruct"
    /\ ~calc.done
    /\ calc' = [calc EXCEPT
                   !.out = [ref |-> ResolveOne(<<calc.x>>, <<>>, Answer("cid", 1)),
                            cand |-> BitsFromMeta(calc.x)],
                   !.done = TRUE]
    /\ UNCHANGED <<search, ctor, callers, ing>>

\* QueryRefiner._extract_json_list(response, "canonical_names") is called
ApplyExtract ==
    /\ calc.fn = "extract_json_list"
    /\ ~calc.done
    /\ calc' = [calc EXCEPT !.out = extract_json_list(calc.x), !.done = TRUE]
    /\ UNCHANGED <<search, ctor, callers, ing>>

NextCalc ==
    \/ ApplyTanimotoBits
    \/ ApplyReconstruct
    \/ ApplyExtract
    \/ ApplyGap
    \/ ApplyGetEmbeddings
    \/ ApplyChunkText
    \/ ApplyRestoreDefault

SpecCalc == InitCalc /\ [][NextCalc]_vars

(***************************************************************************)
(* State machine: LocalSearch.__init__                                     *)
(***************************************************************************)
MaxRecords == 3
VectorDims == {2, 3}
\* what CredentialsManager.load returns for the key and for the project id
CredentialValues == {"None", "", "set"}
Sources ==
    {Source(FALSE, <<>>)} \cup {Source(TRUE, dims) : dims \in SeqsUpTo(VectorDims, MaxRecords)}

InitCtor ==
    /\ InitSearch
    /\ ing = Ingest("none", <<>>, 0)
    /\ calc = NoCalc
    /\ callers = NoCallers
    /\ \E api_key \in CredentialValues, project_id \in CredentialValues,
          source \in Sources :
          ctor = [Ctor(api_key, project_id, source) EXCEPT
                     !.log = <<"CredentialsManager.load">>]

\* the constructor raises: no LocalSearch is returned
CtorFails(exc) == [ctor EXCEPT !.pos = "failed", !.err = exc, !.index = <<>>]

\* lines 102-106: the credentials check
CtorCredentials ==
    /\ ctor.pos = "credentials"
    /\ ctor' = IF credentialsMissing(ctor.api_key, ctor.project_id)
               THEN CtorFails("ValueError")
               ELSE [ctor EXCEPT !.pos = "client"]
    /\ UNCHANGED <<search, calc, callers, ing>>

\* lines 110-115: the embedding client
CtorClient ==
    /\ ctor.pos = "client"
    /\ ctor' = [ctor EXCEPT !.pos = "read", !.client = TRUE,
                            !.log = Append(@, "WatsonxEmbeddingClient")]
    /\ UNCHANGED <<search, calc, callers, ing>>

\* lines 116-118: the file is opened and the dimension read off its first line
CtorReadFirst ==
    /\ ctor.pos = "read"
    /\ ctor' =
          IF ~ctor.source.exists
          THEN [CtorFails("FileNotFoundError") EXCEPT !.log = Append(@, "open")]
          ELSE LET first == firstDim(ctor.source.dims)
               IN IF first.err # ""
                  THEN [CtorFails(first.err) EXCEPT !.read = TRUE,
                                                     !.log = Append(@, "open")]
                  ELSE [ctor EXCEPT !.pos = "load", !.read = TRUE, !.dim = first.dim,
                                    !.log = Append(@, "open")]
    /\ UNCHANGED <<search, calc, callers, ing>>

\* lines 119-120: the index is created with the dimension and loaded
CtorLoad ==
    /\ ctor.pos = "load"
    /\ ctor' =
          LET loaded == load_jsonl(ctor.dim, ctor.source.dims)
              lg == ctor.log \o <<"FAISSIndexManager", "load_jsonl">>
          IN IF loaded.err # ""
             THEN [CtorFails(loaded.err) EXCEPT !.log = lg]
             ELSE [ctor EXCEPT !.pos = "constructed", !.index = loaded.index,
                               !.usable = TRUE, !.log = lg]
    /\ UNCHANGED <<search, calc, callers, ing>>

NextCtor ==
    CtorCredentials \/ CtorClient \/ CtorReadFirst \/ CtorLoad

SpecCtor == InitCtor /\ [][NextCtor]_vars

(***************************************************************************)
(* State machine: threads calling get, query and query_with_tanimoto on    *)
(* the one LocalSearch, their steps interleaved                            *)
(***************************************************************************)
ConcCall(o, top_k, faiss_k, thr, cid) ==
    [op |-> o, top_k |-> top_k, faiss_k |-> faiss_k, sim_threshold |-> thr, cid |-> cid]

ConcCalls ==
    { ConcCall("get", 0, 0, Zero, 1),
      ConcCall("get", 0, 0, Zero, 7),
      ConcCall("query", 2, 4, Zero, 0),
      ConcCall("query", 1, 0, Zero, 0),
      ConcCall("query_with_tanimoto", 2, 4, <<7, 10>>, 0),
      ConcCall("query_with_tanimoto", 1, 5, Zero, 0) }

ConcFilters ==
    { NoFilters,
      Filters(<<Item("solubility_tag",
                     ListC(<<StrV("soluble"), StrV("slightly soluble")>>))>>) }

ConcAnswers == {Answer("raise", 0), Answer("cid", 1), Answer("cid", 3)}

FirstStep(o) ==
    IF o = "get" THEN "get" ELSE IF o = "query" THEN "embed" ELSE "resolve"

InitConc ==
    /\ InitSearch
    /\ ing = Ingest("none", <<>>, 0)
    /\ calc = NoCalc
    /\ ctor = Constructed
    /\ \E filters \in ConcFilters : callers = Callers([t \in Threads |-> IdleCall], filters)

\* the call of thread t ends: its outcome and result are set
Ends(t, me, r) ==
    callers' = [callers EXCEPT !.th[t] =
                   [me EXCEPT !.pc = "done", !.outcome = r.outcome, !.result = r.result]]

\* thread t calls get, query or query_with_tanimoto, passing the filter object
CCall(t) ==
    /\ callers.th[t].pc = "idle"
    /\ \E c \in ConcCalls :
          callers' = [callers EXCEPT !.th[t] =
                         [IdleCall EXCEPT !.pc = FirstStep(c.op), !.op = c.op,
                                          !.top_k = c.top_k, !.faiss_k = c.faiss_k,
                                          !.sim_threshold = c.sim_threshold,
                                          !.cid = c.cid]]
    /\ UNCHANGED <<search, calc, ctor, ing>>

\* LocalSearch.get
CGet(t) ==
    LET me == Locals(callers.th, t)
    IN /\ me.pc = "get"
       /\ Ends(t, me, getCall(metadata, me.cid))
       /\ UNCHANGED <<search, calc, ctor, ing>>

\* scaffold inference and resolution of the one name inferred
CResolve(t) ==
    LET me == Locals(callers.th, t)
    IN /\ me.pc = "resolve"
       /\ \E ans \in ConcAnswers :
             callers' = [callers EXCEPT !.th[t] =
                            [me EXCEPT !.pc = "embed", !.ans = ans,
                                       !.refs = ResolveOne(metadata, <<>>, ans)]]
       /\ UNCHANGED <<search, calc, ctor, ing>>

\* qvec = self.embed_client.embed(query_text); if qvec is None: return []
CEmbed(t) ==
    LET me == Locals(callers.th, t)
    IN /\ me.pc = "embed"
       /\ \E emb \in EmbedAnswers :
             IF emb = "NULL"
             THEN Ends(t, [me EXCEPT !.emb = emb],
                       [outcome |-> "returned", result |-> <<>>])
             ELSE callers' = [callers EXCEPT !.th[t] =
                                 [me EXCEPT !.pc = "search", !.emb = emb]]
       /\ UNCHANGED <<search, calc, ctor, ing>>

\* hits = self.index.search(qarr, faiss_k)
CSearch(t) ==
    LET me == Locals(callers.th, t)
        r == Search(metadata, me.emb, me.faiss_k)
    IN /\ me.pc = "search"
       /\ IF r.err # ""
          THEN Ends(t, me, [outcome |-> r.err, result |-> <<>>])
          ELSE callers' = [callers EXCEPT !.th[t] =
                              [me EXCEPT !.pc = "filter", !.hits = r.hits]]
       /\ UNCHANGED <<search, calc, ctor, ing>>

\* the filter and the slice of query; in Mode C its result is raw_results
CFilter(t) ==
    LET me == Locals(callers.th, t)
        k == IF me.op = "query" THEN me.top_k ELSE me.faiss_k
        r == queryFilter(metadata, me.hits, k, callers.filters)
    IN /\ me.pc = "filter"
       /\ IF me.op = "query" \/ r.outcome # "returned"
          THEN Ends(t, me, r)
          ELSE callers' = [callers EXCEPT !.th[t] =
                              [me EXCEPT !.pc = "gate", !.raw = r.result]]
       /\ UNCHANGED <<search, calc, ctor, ing>>

\* the similarity gate, the sort and the slice of query_with_tanimoto
CGate(t) ==
    LET me == Locals(callers.th, t)
    IN /\ me.pc = "gate"
       /\ Ends(t, me, gateSortSlice(metadata, me.raw, me.refs, me.sim_threshold,
                                    me.top_k))
       /\ UNCHANGED <<search, calc, ctor, ing>>

\* the caller of thread t has the result; the locals of the call are gone
CReturn(t) ==
    /\ callers.th[t].pc = "done"
    /\ callers' = [callers EXCEPT !.th[t] = IdleCall]
    /\ UNCHANGED <<search, calc, ctor, ing>>

NextConc ==
    \E t \in Threads :
        CCall(t) \/ CGet(t) \/ CResolve(t) \/ CEmbed(t) \/ CSearch(t) \/ CFilter(t)
            \/ CGate(t) \/ CReturn(t)

SpecConc == InitConc /\ [][NextConc]_vars

(***************************************************************************)
(* Properties                                                              *)
(***************************************************************************)
(***************************************************************************)
(* SpecIngest: one run of a downloader.  The event loop runs one task at a *)
(* time; a step of the model is at most what a task does between two       *)
(* suspensions.                                                            *)
(***************************************************************************)
InitIngest ==
    /\ InitSearch
    /\ calc = NoCalc
    /\ ctor = Constructed
    /\ callers = NoCallers
    \* lines of a CID file: a number, a number followed by a letter, a blank
    /\ \E prog \in {"ingest", "cli"},
          cids \in SeqsUpTo({<<"7">>, <<"7", "x">>, <<>>}, MaxCids),
          concurrency \in 1 .. MaxWorkers :
          ing = Ingest(prog, cids, concurrency)

\* queue.task_done(): ValueError when called more often than items were put
task_done(unfinished) ==
    IF unfinished <= 0 THEN [raised |-> TRUE, v |-> unfinished]
    ELSE [raised |-> FALSE, v |-> unfinished - 1]

\* mutant: task_done is skipped when the handling of the CID raised
EndItem_ErrorSkipsTaskDone(k, me, raised) ==
    [ing EXCEPT
        !.w[k] = [me EXCEPT !.pc = "get", !.inside = {}, !.docs = <<>>,
                            !.caught = IF raised THEN @ + 1 ELSE @],
        !.unfinished = IF raised THEN @ ELSE task_done(@).v]

\* the handling of a CID ends, by a return or by an exception: the worker
\* catches Exception, calls queue.task_done() and goes back to queue.get()
EndItem(k, me, raised) ==
    LET done == task_done(ing.unfinished)
    IN [ing EXCEPT
           !.w[k] = [me EXCEPT !.pc = IF done.raised THEN "crashed" ELSE "get",
                               !.inside = {}, !.docs = <<>>,
                               !.caught = IF raised THEN @ + 1 ELSE @],
           !.unfinished = done.v]

\* mutant: the sentinel is not marked done
TakeSentinel_NoTaskDone(k, me) ==
    [ing EXCEPT
        !.queue = Tail(@),
        !.w[k] = [NewWorker EXCEPT !.pc = "exited", !.taken = Append(me.taken, 0),
                                   !.caught = me.caught]]

\* if cid is None: queue.task_done(); break (the worker's locals are gone)
TakeSentinel(k, me) ==
    LET done == task_done(ing.unfinished)
    IN [ing EXCEPT
           !.queue = Tail(@),
           !.w[k] = [NewWorker EXCEPT
                        !.pc = IF done.raised THEN "crashed" ELSE "exited",
                        !.taken = Append(me.taken, 0),
                        !.caught = me.caught],
           !.unfinished = done.v]

\* mutant: the PUG-View request does not pass the per-second limiter
EnterRequest_ViewUnlimited(prog, request) ==
    IF request = "pug_view" THEN "min" ELSE "sec"

\* where a request starts: `async with sec_limiter, min_limiter:` of _get_json,
\* `async with sec_limiter: async with min_limiter:` of the cli worker
EnterRequest(prog, request) == "sec"

\* run() up to its first await: the queue is filled, the limiters and the
\* worker tasks are created
RunStart ==
    /\ ing.run = "called"
    /\ LET items == RunQueue(ing.prog, ing.cids, ing.concurrency)
       IN ing' = [ing EXCEPT
                     !.queue = items,
                     !.unfinished = Len(items),
                     !.w = [k \in 1 .. MaxWorkers |->
                              IF k <= ing.concurrency THEN NewWorker ELSE ing.w[k]],
                     !.run = IF ing.prog = "cli" THEN "poll" ELSE "join"]
    /\ UNCHANGED <<search, calc, ctor, callers>>

\* cli: `while not queue.empty(): ... await asyncio.sleep(0.5)` is left
RunPoll ==
    /\ ing.run = "poll"
    /\ ing.queue = <<>>
    /\ ing' = [ing EXCEPT !.run = "join"]
    /\ UNCHANGED <<search, calc, ctor, callers>>

\* `await queue.join()` returns; the tasks are cancelled (and gathered)
RunJoin ==
    /\ ing.run = "join"
    /\ ing.unfinished = 0
    /\ ing' = [ing EXCEPT
                  !.run = "done",
                  !.w = [k \in 1 .. MaxWorkers |->
                           IF ing.w[k].pc \in {"none", "exited", "crashed"} THEN ing.w[k]
                           ELSE [ing.w[k] EXCEPT !.pc = "cancelled"]]]
    /\ UNCHANGED <<search, calc, ctor, callers>>

\* cid = await queue.get(): a sentinel ends the worker, a CID starts
\* process_cid (ingest) or fetch (cli) with its first request.  The event
\* loop starts the tasks in the order of their creation, and get() on a
\* queue that holds an item does not suspend: a worker's first get() comes
\* after the first get() of the workers created before it
Take(k) ==
    /\ ing.w[k].pc = "get"
    /\ ing.run # "done"
    /\ ing.queue # <<>>
    /\ \A j \in 1 .. k - 1 : ing.w[j].taken # <<>>
    /\ LET me == ing.w[k]
           item == Head(ing.queue)
       IN ing' = IF item.none THEN TakeSentinel(k, me)
                 ELSE [ing EXCEPT
                          !.queue = Tail(@),
                          !.w[k] = [me EXCEPT
                                       !.pc = EnterRequest(ing.prog, Requests(ing.prog)[1]),
                                       !.req = 1, !.docs = <<>>,
                                       !.trail = <<>>,
                                       !.taken = Append(@, item.pos)]]
    /\ UNCHANGED <<search, calc, ctor, callers>>

\* the per-second limiter has capacity: the worker is inside its block
AcquireSec(k) ==
    /\ ing.w[k].pc = "sec"
    /\ ing.run # "done"
    /\ ing.sec < MAX_RPS
    /\ ing' = [ing EXCEPT !.sec = @ + 1,
                          !.w[k].inside = @ \cup {"sec"},
                          !.w[k].pc = "min"]
    /\ UNCHANGED <<search, calc, ctor, callers>>

\* the per-minute limiter has capacity: the worker is inside its block and
\* calls session.get(url); the request is on the wire
Send(k) ==
    /\ ing.w[k].pc = "min"
    /\ ing.run # "done"
    /\ ing.min < MAX_RPM
    /\ ing' = [ing EXCEPT
                  !.min = @ + 1,
                  !.w[k].inside = @ \cup {"min"},
                  !.w[k].trail =
                      Append(@, [e |-> "GET", what |-> Requests(ing.prog)[ing.w[k].req],
                                 inside |-> ing.w[k].inside \cup {"min"}, doc |-> ""]),
                  !.w[k].pc = "wait"]
    /\ UNCHANGED <<search, calc, ctor, callers>>

\* what the worker does with the answer to its request, up to its next
\* suspension: [me: the worker, ended: the handling of the CID is over,
\* raised: it ended by an exception]
AfterAnswer(prog, me, answer) ==
    LET left == [me EXCEPT !.inside = {}]
        Did(w, e, what) ==
            [w EXCEPT !.trail =
                Append(@, [e |-> e, what |-> what, inside |-> {}, doc |-> ""])]
        Got(w, doc) ==
            [w EXCEPT !.trail =
                Append(@, [e |-> "returned", what |-> Requests(prog)[me.req],
                           inside |-> {}, doc |-> doc])]
        Advance(w) == [w EXCEPT !.req = @ + 1,
                                !.pc = EnterRequest(prog, Requests(prog)[me.req + 1])]
    IN IF prog = "cli"
       THEN \* fetch: raise, or write out_dir/<cid>.json
            IF fetch(answer).raised
            THEN [me |-> Did(left, "raise", "fetch"), ended |-> TRUE, raised |-> TRUE]
            ELSE [me |-> Did(Got(left, answer), "write", "out"),
                  ended |-> TRUE, raised |-> FALSE]
       ELSE LET got == get_json(answer)
                have == Got([left EXCEPT !.docs = Append(@, got.v)], got.v)
            IN IF got.raised
               THEN [me |-> Did(left, "raise", "_get_json"), ended |-> TRUE,
                     raised |-> TRUE]
               ELSE IF me.req = 1
               THEN \* if not raw: return; else the raw file is written
                    IF got.v = "None"
                    THEN [me |-> have, ended |-> TRUE, raised |-> FALSE]
                    ELSE [me |-> Advance(Did(have, "write", "raw")), ended |-> FALSE,
                          raised |-> FALSE]
               ELSE IF me.req < Len(Requests(prog))
               THEN [me |-> Advance(have), ended |-> FALSE, raised |-> FALSE]
               ELSE \* build_parsed, then the parsed file is written
                    IF build_parsed(have.docs[1], have.docs[2], have.docs[3],
                                    have.docs[4]).raised
                    THEN [me |-> Did(have, "raise", "build_parsed"), ended |-> TRUE,
                          raised |-> TRUE]
                    ELSE [me |-> Did(have, "write", "parsed"), ended |-> TRUE,
                          raised |-> FALSE]

\* the answer to the request arrives, or the request fails
Receive(k) ==
    /\ ing.w[k].pc = "wait"
    /\ ing.run # "done"
    \* a JSON document, an error status, a transport error; a properties
    \* document may hold an empty "Properties" list
    /\ \E answer \in {"json", "http_error", "error", "json_empty_list"} :
          /\ answer = "json_empty_list" =>
                Requests(ing.prog)[ing.w[k].req] = "properties"
          /\ LET after == AfterAnswer(ing.prog, ing.w[k], answer)
             IN ing' = IF after.ended THEN EndItem(k, after.me, after.raised)
                       ELSE [ing EXCEPT !.w[k] = after.me]
    /\ UNCHANGED <<search, calc, ctor, callers>>

\* time passes while a worker waits for capacity: the buckets of the limiters
\* drain (draining at other moments only lowers the levels, and a lower
\* level blocks nothing that a higher one lets pass)
Tick ==
    /\ ing.run \in {"poll", "join"}
    /\ \E k \in 1 .. MaxWorkers :
          \/ ing.w[k].pc = "sec" /\ ing.sec >= MAX_RPS
          \/ ing.w[k].pc = "min" /\ ing.min >= MAX_RPM
    /\ ing' = [ing EXCEPT !.sec = Max(@ - 1, 0), !.min = Max(@ - 1, 0)]
    /\ UNCHANGED <<search, calc, ctor, callers>>

NextIngest ==
    \/ RunStart
    \/ RunPoll
    \/ RunJoin
    \/ \E k \in 1 .. MaxWorkers : Take(k) \/ AcquireSec(k) \/ Send(k) \/ Receive(k)
    \/ Tick

SpecIngest == InitIngest /\ [][NextIngest]_vars

\* fair scheduling: the event loop runs every task that can run, time passes,
\* and every request is answered or fails
FairIngest ==
    /\ SpecIngest
    /\ WF_vars(RunStart \/ RunPoll \/ RunJoin)
    /\ \A k \in 1 .. MaxWorkers :
          WF_vars(Take(k) \/ AcquireSec(k) \/ Send(k) \/ Receive(k))
    /\ WF_vars(Tick)

InSeq(x, s) == \E j \in 1..Len(s) : s[j] = x

Returned == pc = "done" /\ outcome = "returned"
ModeC == op = "query_with_tanimoto"
ModeA == op = "query"

\* C1: query_with_tanimoto returns the empty list whenever zero reference
\* fingerprints were resolved, for every top_k, faiss_k, filters and sim_threshold.
C1_FailClosedGate ==
    (Returned /\ ModeC /\ ref_bvs = <<>>) => result = <<>>

\* the gate does close for a positive threshold
C1_FailClosedPositiveThreshold ==
    (Returned /\ ModeC /\ ref_bvs = <<>> /\ ~RatGE(Zero, args.sim_threshold))
        => result = <<>>

\* C2: when the embedding client answers null, query returns the empty list
\* without raising and without searching the index, and query_with_tanimoto
\* returns the empty list too.
C2_EmbeddingFailureEmpty ==
    (pc = "done" /\ embedded = "NULL")
        => (outcome = "returned" /\ result = <<>> /\ ~InSeq("search", log))

C2_Witness ==
    /\ pc = "done" /\ ModeC /\ embedded = "NULL"
    /\ Len(ref_bvs) = 2 /\ args.sim_threshold = Zero /\ args.top_k = -1
    /\ args.faiss_k = 0 /\ ~args.filters.none

\* the reconstructed fingerprint of the record at position p
FpOf(p) == BitsFromMeta(metadata[p]).bits
SimsOf(p) == {TanimotoSimilarity(FpOf(p), ref_bvs[j]) : j \in 1..Len(ref_bvs)}

\* sim is the greatest similarity of record p to a reference (0.0 with no reference)
IsMaxSim(sim, p) ==
    IF ref_bvs = <<>> THEN sim = Zero
    ELSE /\ \E x \in SimsOf(p) : RatEq(sim, x)
         /\ \A x \in SimsOf(p) : RatGE(sim, x)

ReachesThreshold(p) ==
    IF ref_bvs = <<>> THEN RatGE(Zero, args.sim_threshold)
    ELSE \E x \in SimsOf(p) : RatGE(x, args.sim_threshold)

PosInHits(p) == CHOOSE k \in 1..Len(hits) : hits[k].rec = p

SortedStable(res) ==
    /\ \A j \in 1..(Len(res) - 1) : res[j].score >= res[j + 1].score
    /\ \A i, j \in 1..Len(res) :
          (i < j /\ res[i].score = res[j].score)
              => PosInHits(res[i].rec) < PosInHits(res[j].rec)

\* C4: the list returned by query_with_tanimoto is sorted by relevance_score
\* descending, has at most top_k entries, and entries of equal relevance_score
\* keep the order of the index search result.
C4_ModeCOrdering ==
    (Returned /\ ModeC) =>
        /\ SortedStable(result)
        /\ Len(result) <= Max(args.top_k, 0)

\* the same, for calls with top_k >= 0
C4_OrderingNonNegativeTopK ==
    (Returned /\ ModeC /\ args.top_k >= 0) =>
        /\ SortedStable(result)
        /\ Len(result) <= args.top_k

\* the first k elements of s
FirstK(s, k) == SubSeq(s, 1, Min(Max(k, 0), Len(s)))

PassesFilter(h) == passes(metadata[h.rec], args.filters) = "ok"
PassingHits == SelectSeq(hits, PassesFilter)

\* C5: for a non-null embedding, query returns exactly the first top_k of the index
\* hits that pass the filter, in the index's order and with the index's scores, so
\* at most min(top_k, faiss_k, N) entries.
C5_ModeAShape ==
    (Returned /\ ModeA /\ embedded # "NULL") =>
        /\ result = FirstK(PassingHits, args.top_k)
        /\ Len(result) <= Max(0, Min(args.top_k, Min(args.faiss_k, Len(metadata))))

\* the same, for calls with top_k >= 0
C5_ShapeNonNegativeTopK ==
    (Returned /\ ModeA /\ embedded # "NULL" /\ args.top_k >= 0) =>
        /\ result = FirstK(PassingHits, args.top_k)
        /\ Len(result) <= Min(args.top_k, Min(args.faiss_k, Len(metadata)))

FilterKeys == {args.filters.items[j].key : j \in 1..Len(args.filters.items)}

\* C6: a record that lacks a field named by the filter is never in query's
\* result, whatever the condition's shape and value.
C6_AbsentNeverPasses ==
    (Returned /\ ModeA) =>
        \A j \in 1..Len(result) : FilterKeys \subseteq DOMAIN metadata[result[j].rec]

MentionsNone(cond) ==
    \/ cond.shape = "scalar" /\ cond.v = NoneV
    \/ cond.shape = "list" /\ InList(NoneV, cond.items)

\* the same, for filters whose conditions do not mention None
C6_AbsentFailsNonNoneCondition ==
    (Returned /\ ModeA
        /\ \A j \in 1..Len(args.filters.items) : ~MentionsNone(args.filters.items[j].cond))
    => \A j \in 1..Len(result) : FilterKeys \subseteq DOMAIN metadata[result[j].rec]

\* the value of a record's field; an absent field reads as None
FieldValue(m, key) == IF key \in DOMAIN m THEN m[key] ELSE NoneV

\* the condition holds of a field value (no range holds of None)
CondHolds(val, cond) ==
    CASE cond.shape = "tuple" -> val.t = "int" /\ cond.lo <= val.i /\ val.i <= cond.hi
      [] cond.shape = "list" -> \E j \in 1..Len(cond.items) : cond.items[j] = val
      [] OTHER -> val = cond.v

AllCondsHold(m) ==
    \A j \in 1..Len(args.filters.items) :
        CondHolds(FieldValue(m, args.filters.items[j].key), args.filters.items[j].cond)

\* a query (the user's, or the one inside Mode C) has filtered the hits
QueryFiltered == (ModeA /\ Returned) \/ (ModeC /\ pc = "gate")

EmptyFilter == args.filters.none \/ args.filters.items = <<>>

\* C8: query with filters = {} and with filters = None return the same list, the
\* first top_k index hits, with no record excluded.
C8_EmptyFilterIsModeA ==
    (Returned /\ ModeA /\ embedded # "NULL" /\ EmptyFilter) =>
        /\ result = query(metadata, embedded, args.top_k, NoFilters, args.faiss_k).result
        /\ result = query(metadata, embedded, args.top_k, Filters(<<>>),
                          args.faiss_k).result
        /\ filtered = hits
        /\ result = FirstK(hits, args.top_k)

\* the same, for calls with top_k >= 0
C8_EmptyFilterNonNegativeTopK ==
    (Returned /\ ModeA /\ embedded # "NULL" /\ EmptyFilter /\ args.top_k >= 0) =>
        /\ result = query(metadata, embedded, args.top_k, NoFilters, args.faiss_k).result
        /\ result = query(metadata, embedded, args.top_k, Filters(<<>>),
                          args.faiss_k).result
        /\ filtered = hits
        /\ result = FirstK(hits, args.top_k)

\* C9: a call of query or query_with_tanimoto with top_k <= 0 or faiss_k <= 0
\* fails with InvalidArgument instead of returning a list.
C9_NonPositiveCountsRejected ==
    Returned => (args.top_k > 0 /\ args.faiss_k > 0)

\* |a AND b| / |a OR b|, and 0.0 when both vectors are all-zero
JaccardOrZero(a, b) ==
    IF a \cup b = {} THEN Zero ELSE <<Cardinality(a \cap b), Cardinality(a \cup b)>>

\* C10: the similarity used for gating equals |a AND b| / |a OR b| and is 0.0 when
\* both vectors are all-zero; 15 shared bits of 16 score 15/16, and any vector
\* against the all-zero vector scores 0.0.
C10_TanimotoValue ==
    /\ (pc \in {"gate", "done"} /\ ModeC) =>
          \A j \in 1..Len(raw_results), k \in 1..Len(ref_bvs) :
              LET a == FpOf(raw_results[j].rec)
              IN /\ RatEq(TanimotoSimilarity(a, ref_bvs[k]), JaccardOrZero(a, ref_bvs[k]))
                 /\ ref_bvs[k] = {} => RatEq(TanimotoSimilarity(a, ref_bvs[k]), Zero)
    /\ RatEq(TanimotoSimilarity(0..14, 0..15), <<15, 16>>)

\* the example script's tanimoto_bits has the claimed value on every pair
C10_TanimotoBitsValue ==
    pc = "idle" =>
        /\ \A a, b \in SUBSET (0..3) : RatEq(tanimoto_bits(a, b), JaccardOrZero(a, b))
        /\ RatEq(tanimoto_bits(0..14, 0..15), <<15, 16>>)
        /\ RatEq(tanimoto_bits(0..14, {}), Zero)
        /\ RatEq(tanimoto_bits({}, {}), Zero)

\* the library similarity differs from the claim only on two all-zero vectors
C10_TanimotoValueNonEmpty ==
    pc = "idle" =>
        \A a, b \in SUBSET (0..3) :
            a \cup b # {} => RatEq(TanimotoSimilarity(a, b), JaccardOrZero(a, b))
(***************************************************************************)
(* C11: tanimoto_bits is symmetric, its value lies in [0.0, 1.0], it is    *)
(* 1.0 on a vector with a set bit against itself and 0.0 on two all-zero   *)
(* vectors.                                                                *)
(***************************************************************************)
Applied(fn) == calc.fn = fn /\ calc.done

C11_TanimotoAlgebra ==
    Applied("tanimoto_bits") =>
        /\ RatEq(calc.out, tanimoto_bits(calc.y, calc.x))
        /\ RatGE(calc.out, Zero)
        /\ RatGE(One, calc.out)
        /\ (calc.x = calc.y /\ calc.x # {}) => RatEq(calc.out, One)
        /\ (calc.x = {} /\ calc.y = {}) => RatEq(calc.out, Zero)

\* a vector with two set bits has been compared with itself
C11_Witness ==
    /\ Applied("tanimoto_bits")
    /\ calc.x = calc.y
    /\ Cardinality(calc.x) = 2

(***************************************************************************)
(* C12: the vector rebuilt from a stored index list has bit i set iff i    *)
(* occurs in the list and 0 <= i < 1024 (out-of-range indices ignored,     *)
(* duplicates without effect, no ecfp field gives the all-zero vector),    *)
(* for a reference and for a candidate alike.                              *)
(***************************************************************************)
StoredList(m) == IF "ecfp" \in DOMAIN m THEN m.ecfp.l ELSE <<>>
BitsOfList(e) == {i \in 0..(FpWidth - 1) : InSeq(i, e)}

C12_FingerprintReconstruction ==
    Applied("reconstruct") =>
        /\ calc.out.ref = <<BitsOfList(StoredList(calc.x))>>
        /\ calc.out.cand = [err |-> "", bits |-> BitsOfList(StoredList(calc.x))]
        /\ "ecfp" \notin DOMAIN calc.x => calc.out.cand.bits = {}

\* a list with a duplicate, an index below the range and the last index of the range
C12_Witness ==
    /\ Applied("reconstruct")
    /\ "ecfp" \in DOMAIN calc.x
    /\ calc.x.ecfp.l = <<FpWidth - 1, -1, FpWidth - 1>>
    /\ calc.out.cand.bits = {FpWidth - 1}

(***************************************************************************)
(* C13: _extract_json_list never raises. It returns the stripped non-empty *)
(* strings of the list under the key, found by the strict decode of the    *)
(* text or else in the first brace-delimited block holding the key, and    *)
(* the empty list when neither gives a list under the key.                 *)
(***************************************************************************)
CleanNames(l) ==
    LET strs == SelectSeq(l, LAMBDA v : v.t = "str" /\ Strip(v.s) # "")
    IN [j \in 1..Len(strs) |-> Strip(strs[j].s)]

ListUnderKey(j) == j.kind = "dict" /\ j.has /\ j.vals.t = "list"

ExpectedNames(response) ==
    IF ListUnderKey(response.strict) THEN CleanNames(response.strict.vals.l)
    ELSE IF ListUnderKey(response.block) THEN CleanNames(response.block.vals.l)
    ELSE <<>>

C13_ExtractNeverRaises ==
    Applied("extract_json_list") =>
        /\ calc.out.k = "return"
        /\ calc.out.exc = ""
        /\ calc.out.names = ExpectedNames(calc.x)
        /\ \A j \in 1..Len(calc.out.names) :
               calc.out.names[j] # "" /\ Strip(calc.out.names[j]) = calc.out.names[j]

\* a text whose strict decode is not an object (obj.get raises AttributeError)
\* and whose first block holds the list
C13_Witness ==
    /\ Applied("extract_json_list")
    /\ calc.x.strict.kind = "nondict"
    /\ calc.x.block.kind = "dict"
    /\ calc.out.names = <<"caffeine">>

(***************************************************************************)
(* C14: the names query_with_tanimoto obtains from scaffold inference and  *)
(* hands to name resolution are at most three.                             *)
(***************************************************************************)
Resolving == ModeC /\ pc = "resolve"

C14_AtMostThreeNames ==
    Resolving => Len(scaffold_names) <= 3

(***************************************************************************)
(* C15: in resolve_scaffolds_to_bitvectors a name whose resolution raises, *)
(* gives no compound or gives a CID absent from the index is skipped       *)
(* without raising, the other names are still processed, and the list      *)
(* holds exactly one fingerprint per resolved-and-found name, in input     *)
(* order.                                                                  *)
(***************************************************************************)
RecordOf(cid) == metadata[get(metadata, cid)]
FpsOf(cids) == [j \in 1..Len(cids) |-> BitsFromMeta(RecordOf(cids[j])).bits]

\* get_compounds has been called once for each name the loop has passed
EveryNameTried ==
    log = <<"generate_text">> \o [j \in 1..(nameIdx - 1) |-> "get_compounds"]

EcfpIterable(cid) == DictGet(RecordOf(cid), "ecfp", ListV(<<>>)).t = "list"

C16_InferenceFailureContained ==
    (ModeC /\ pc = "done" /\ log = <<"generate_text">>) =>
        (outcome = "returned" /\ result = <<>>)

(***************************************************************************)
(* C17: an error confined to one candidate (a stored ecfp that is null, a  *)
(* field value that cannot be compared with a range bound) does not abort  *)
(* the search: the call returns.                                           *)
(***************************************************************************)
C17_CandidateErrorContained ==
    (pc = "done" /\ args.faiss_k > 0) => outcome # "TypeError"

\* the same, for Mode A alone: the error raised by the range comparison in passes
C17_FilterErrorContained ==
    (ModeA /\ pc = "done" /\ args.faiss_k > 0) => outcome # "TypeError"

\* the same, for the gate loop alone: the filter passed, the stored ecfp is null
C17_GateErrorContained ==
    (ModeC /\ pc = "done" /\ raw_results # <<>>) => outcome # "TypeError"

(***************************************************************************)
(* C18: no call changes the index or the filter object it was given, so    *)
(* with the calls of several threads interleaved in any way each call      *)
(* ends as it would alone: its outcome and result are those of the same    *)
(* call, with the same collaborator answers, run by itself on the index as *)
(* loaded.                                                                 *)
(***************************************************************************)
Alone(c, filters) ==
    IF c.op = "get" THEN getCall(LoadedIndex, c.cid)
    ELSE IF c.op = "query"
    THEN LET r == query(LoadedIndex, c.emb, c.top_k, filters, c.faiss_k)
         IN [outcome |-> r.outcome, result |-> r.result]
    ELSE LET refs == ResolveOne(LoadedIndex, <<>>, c.ans)
             r == query(LoadedIndex, c.emb, c.faiss_k, filters, c.faiss_k)
         IN IF r.outcome # "returned" THEN [outcome |-> r.outcome, result |-> <<>>]
            ELSE gateSortSlice(LoadedIndex, r.result, refs, c.sim_threshold, c.top_k)

C18_CallsDoNotInterfere ==
    /\ metadata = LoadedIndex
    /\ callers.filters = callers.given
    /\ \A t \in Threads :
          callers.th[t].pc = "done" =>
              [outcome |-> callers.th[t].outcome, result |-> callers.th[t].result]
                  = Alone(callers.th[t], callers.given)

\* a filtered Mode C call has returned candidates while the other thread, between
\* its search and its filter, holds other hits
C18_Witness ==
    /\ callers.th["t1"].pc = "done"
    /\ callers.th["t1"].op = "query_with_tanimoto"
    /\ callers.th["t1"].result # <<>>
    /\ ~callers.filters.none
    /\ callers.th["t2"].pc = "filter"
    /\ callers.th["t2"].hits # callers.th["t1"].hits

\* in the one-call-at-a-time machine too, the index stays as loaded
C18_IndexReadOnly == metadata = LoadedIndex

(***************************************************************************)
(* C19: constructing LocalSearch from a source that is missing, empty, or  *)
(* whose records do not all have the vector dimension of the first record  *)
(* fails with a load error and yields no LocalSearch; the expected         *)
(* dimension is that of the first record.                                  *)
(***************************************************************************)
CtorEnded == ctor.pos \in {"failed", "constructed"}
CredentialsGiven == ctor.api_key = "set" /\ ctor.project_id = "set"
LoadErrors == {"FileNotFoundError", "IndexError", "LoadError"}

\* the file exists, has a first record, and every record has its dimension
SourceLoadable(source) ==
    /\ source.exists
    /\ source.dims # <<>>
    /\ \A j \in 1..Len(source.dims) : source.dims[j] = source.dims[1]

C19_LoadAllOrNothing ==
    /\ (CtorEnded /\ CredentialsGiven) =>
          /\ ctor.usable <=> SourceLoadable(ctor.source)
          /\ ctor.usable => (ctor.pos = "constructed" /\ ctor.index = ctor.source.dims)
          /\ ~ctor.usable =>
                (ctor.pos = "failed" /\ ctor.err \in LoadErrors /\ ctor.index = <<>>)
    /\ InSeq("FAISSIndexManager", ctor.log) => ctor.dim = ctor.source.dims[1]

\* the third record has another dimension than the first two: LoadError
C19_Witness ==
    /\ ctor.pos = "failed"
    /\ ctor.source = Source(TRUE, <<2, 2, 3>>)
    /\ ctor.err = "LoadError"
    /\ ~ctor.usable

(***************************************************************************)
(* C20: when the API key or the project id is unavailable the constructor  *)
(* raises at once: no embedding client has been created, the record file   *)
(* has not been read and no index has been built.                          *)
(***************************************************************************)
C20_CredentialsFirst ==
    (CtorEnded /\ ~CredentialsGiven) =>
        /\ ctor.pos = "failed"
        /\ ctor.err = "ValueError"
        /\ ~ctor.client
        /\ ~ctor.read
        /\ ctor.index = <<>>
        /\ ctor.log = <<"CredentialsManager.load">>

\* the key is there, the project id is empty, the file would have loaded
C20_Witness ==
    /\ ctor.pos = "failed"
    /\ ctor.api_key = "set"
    /\ ctor.project_id = ""
    /\ SourceLoadable(ctor.source)
    /\ ctor.err = "ValueError"

(***************************************************************************)
(* C23: after restore_default(name) succeeds, load_template(name) returns  *)
(* the text of the default prompt and load_vars(name) the default          *)
(* variables, and the default copies are unchanged; when a default file is *)
(* missing the call raises FileNotFoundError.                              *)
(***************************************************************************)
C23_RestoreDefault ==
    Applied("restore_default") =>
        LET before == calc.x
            defaultMissing ==
                before.default_prompt = Missing \/ before.default_vars = Missing
        IN /\ defaultMissing => calc.out.exc = "FileNotFoundError"
           /\ ~defaultMissing => calc.out.exc = "none"
           /\ calc.out.exc = "none" =>
                 /\ calc.out.template =
                        [exc |-> "none", v |-> read_text(before.default_prompt)]
                 /\ calc.out.vars = json_loads(read_text(before.default_vars))
                 /\ calc.out.vars.exc = "none"
           /\ calc.out.files.default_prompt = before.default_prompt
           /\ calc.out.files.default_vars = before.default_vars

\* a corrupted vars file and an edited prompt were replaced by the defaults
C23_Witness ==
    /\ Applied("restore_default")
    /\ calc.out.exc = "none"
    /\ load_vars(calc.x).exc = "JSONDecodeError"
    /\ load_template(calc.x).v = "B\n"
    /\ calc.out.template.v = "A\n"
    /\ calc.out.vars.v = "v=2"

(***************************************************************************)
(* C24: in every call of query_with_tanimoto the steps come in one order:  *)
(* scaffold inference, then one lookup per inferred name, then exactly one *)
(* semantic query (embedding, index search, metadata filter) made with     *)
(* top_k = faiss_k, so that every filtered candidate reaches the gate, and *)
(* only then the gate, the sort and the cut to the caller's top_k.  The    *)
(* semantic query is made also when no reference was resolved.             *)
(***************************************************************************)
Lookups(n) == [j \in 1 .. n |-> "get_compounds"]

\* the collaborator calls of a call that has gone through its semantic query
SemanticQueryMade ==
    log = <<"generate_text">> \o Lookups(Len(scaffold_names))
            \o (IF embedded = "NULL" THEN <<"embed">> ELSE <<"embed", "search">>)

\* the steps that are made come in the stated order, and a call that returns
\* has made them all
StepsInOrder ==
    ModeC =>
        /\ pc = "infer" => log = <<>>
        /\ pc = "resolve" =>
              /\ log = <<"generate_text">> \o Lookups(nameIdx - 1)
              /\ nameIdx <= Len(scaffold_names) + 1
              /\ raw_results = <<>> /\ kept = <<>> /\ result = <<>>
        /\ pc = "gate" =>
              /\ SemanticQueryMade
              /\ raw_results = PySlice(filtered, args.faiss_k)
              /\ raw_results = filtered
              /\ kept = <<>> /\ result = <<>>
        /\ Returned =>
              /\ SemanticQueryMade
              /\ raw_results = filtered
              /\ kept = SortResults(GateLoop(metadata, raw_results, ref_bvs,
                                             args.sim_threshold).results)
              /\ result = PySlice(kept, args.top_k)

\* every call that has ended has made its one semantic query
C24_EveryRunInOrder ==
    /\ StepsInOrder
    /\ (ModeC /\ pc = "done") => SemanticQueryMade

\* a call that resolved none of its two names made the semantic query and
\* cut more gated candidates than the caller asked for
ZeroReferencesStillQueried ==
    /\ ModeC
    /\ Returned
    /\ Len(scaffold_names) >= 2
    /\ ref_bvs = <<>>
    /\ InSeq("search", log)
    /\ args.top_k >= 1
    /\ Len(kept) > args.top_k
    /\ Len(result) = args.top_k

(***************************************************************************)
(* C28: for chunk_size > overlap >= 0, _chunk_text ends; every chunk holds *)
(* at most chunk_size tokens; chunk j (from 0) starts at token             *)
(* j * (chunk_size - overlap); consecutive chunks share exactly overlap    *)
(* tokens; every token is in some chunk; the last chunk ends at the last   *)
(* token; no chunk follows one that reaches the end; a text without tokens *)
(* gives no chunks.                                                        *)
(***************************************************************************)
C28_ChunksCoverText ==
    Applied("chunk_text") =>
        LET tokens == split(calc.x)
            n == Len(tokens)
            chunk_size == calc.y.chunk_size
            step == calc.y.chunk_size - calc.y.overlap
            chunks == calc.out
            m == Len(chunks)
            start(j) == (j - 1) * step
            size(j) == Len(split(chunks[j]))
        IN /\ n = 0 => m = 0
           /\ n > 0 => m > 0 /\ start(m) + size(m) = n
           /\ \A j \in 1 .. m :
                 /\ size(j) >= 1
                 /\ size(j) <= chunk_size
                 /\ start(j) < n
                 /\ split(chunks[j]) =
                        SubSeq(tokens, start(j) + 1, Min(start(j) + chunk_size, n))
                 /\ j < m => /\ start(j) + size(j) - start(j + 1) = calc.y.overlap
                             /\ size(j + 1) >= calc.y.overlap
                 /\ start(j) + chunk_size >= n => j = m
           /\ \A p \in 1 .. n :
                 \E j \in 1 .. m : start(j) < p /\ p <= start(j) + size(j)

\* a text was cut into several overlapping chunks, the last one short
C28_Witness ==
    /\ Applied("chunk_text")
    /\ calc.y.overlap >= 1
    /\ Len(calc.out) >= 2
    /\ Len(split(calc.out[Len(calc.out)])) < calc.y.chunk_size
    /\ Len(split(calc.x)) < Len(calc.x)

(***************************************************************************)
(* C29: _get_embeddings(texts) returns one vector per input text, in the   *)
(* order of the texts (so that a caller can pair text j with element j and *)
(* take element 0 as the embedding of a single text); an error of the      *)
(* service is logged and is not raised.                                    *)
(***************************************************************************)
OneVectorPerText(texts) == ListV([j \in 1 .. Len(texts) |-> EmbedVector(texts[j])])

C29_OneVectorPerText ==
    Applied("get_embeddings") =>
        /\ calc.y = "ok" => calc.out.returned = OneVectorPerText(calc.x)
        /\ calc.y = "error" => calc.out.logged

(***************************************************************************)
(* C30: homo_lumo_gap is mo_energies[homo_index + 1] minus                  *)
(* mo_energies[homo_index] when both fields are present and                 *)
(* 0 <= homo_index and homo_index + 1 < len(mo_energies), and None in       *)
(* every other case, a negative homo_index included.                        *)
(***************************************************************************)
GapDefined(q) ==
    /\ q.mo_energies # NoneV
    /\ q.homo_index # NoneV
    /\ 0 <= q.homo_index.i
    /\ q.homo_index.i + 1 < Len(q.mo_energies.l)

C30_GapOrNone ==
    Applied("homo_lumo_gap") =>
        calc.out = IF GapDefined(calc.x)
                   THEN IntV(calc.x.mo_energies.l[calc.x.homo_index.i + 2]
                             - calc.x.mo_energies.l[calc.x.homo_index.i + 1])
                   ELSE NoneV

(***************************************************************************)
(* Ingest runs                                                             *)
(***************************************************************************)
Started == ing.run # "called"
Created == {k \in 1 .. MaxWorkers : ing.w[k].pc # "none"}

\* how often the CID at position pos of the list has been dequeued, and how
\* often it is on the queue
TimesTaken(pos) ==
    Cardinality({kj \in (1 .. MaxWorkers) \X (1 .. Len(ing.cids) + 1) :
                    /\ kj[2] <= Len(ing.w[kj[1]].taken)
                    /\ ing.w[kj[1]].taken[kj[2]] = pos})
TimesQueued(pos) ==
    Cardinality({j \in 1 .. Len(ing.queue) : ing.queue[j].pos = pos})

SentinelTaken(k) == InSeq(0, ing.w[k].taken)

(***************************************************************************)
(* C21: in run() of ingest.py every token made of digits only is handed to *)
(* process_cid exactly once, by one worker (one call per occurrence in the *)
(* list); a token that is not purely numeric is never processed; no CID is *)
(* processed after a worker has taken its shutdown sentinel.               *)
(***************************************************************************)
C21_WorkDistribution ==
    (ing.prog = "ingest" /\ Started) =>
        /\ \A pos \in 1 .. Len(ing.cids) :
              IF IsDigits(ing.cids[pos])
              THEN /\ TimesTaken(pos) + TimesQueued(pos) = 1
                   /\ ing.run = "done" => TimesTaken(pos) = 1
              ELSE TimesTaken(pos) = 0 /\ TimesQueued(pos) = 0
        /\ \A k \in Created :
              /\ \A j \in 1 .. Len(ing.w[k].taken) :
                    /\ ing.w[k].taken[j] = 0 => j = Len(ing.w[k].taken)
                    /\ ing.w[k].taken[j] # 0 => IsDigits(ing.cids[ing.w[k].taken[j]])
              /\ SentinelTaken(k) =>
                    /\ ing.w[k].pc = "exited"
                    /\ \A j \in 1 .. Len(ing.queue) : ing.queue[j].none

\* of a list with a blank line and a number, each of two workers ended
\* after the one number went to the first
C21_Witness ==
    /\ ing.prog = "ingest"
    /\ ing.run = "done"
    /\ ing.cids = << <<>>, <<"7">> >>
    /\ ing.w[1].taken = <<2, 0>>
    /\ ing.w[2].taken = <<0>>

(***************************************************************************)
(* C22: in both downloaders every GET is sent only while the sending       *)
(* worker is inside both the per-second limiter (capacity 5) and the       *)
(* per-minute limiter (capacity 400); no request path goes around either   *)
(* limiter, at any concurrency.                                            *)
(***************************************************************************)
C22_EveryRequestLimited ==
    Started =>
        /\ MAX_RPS = 5 /\ MAX_RPM = 400
        /\ ing.sec <= MAX_RPS /\ ing.min <= MAX_RPM
        /\ \A k \in Created :
              /\ ing.w[k].pc = "wait" => ing.w[k].inside = {"sec", "min"}
              /\ \A j \in 1 .. Len(ing.w[k].trail) :
                    ing.w[k].trail[j].e = "GET" =>
                        ing.w[k].trail[j].inside = {"sec", "min"}

\* the per-second bucket is full: one worker waits for capacity while the
\* request of the other is on the wire
C22_Witness ==
    /\ ing.sec = MAX_RPS
    /\ \E k \in Created : ing.w[k].pc = "sec"
    /\ \E k \in Created : ing.w[k].pc = "wait" /\ ing.w[k].req >= 2

\* the workers that hold a CID, and the items whose handling is over
Busy == {k \in Created : ing.w[k].pc \in {"sec", "min", "wait"}}
RECURSIVE TakenUpTo(_)
TakenUpTo(k) == IF k = 0 THEN 0 ELSE Len(ing.w[k].taken) + TakenUpTo(k - 1)
Handled == TakenUpTo(MaxWorkers) - Cardinality(Busy)
Enqueued == Len(RunQueue(ing.prog, ing.cids, ing.concurrency))

(***************************************************************************)
(* C26: in both workers an exception while a CID is processed does not end *)
(* the worker: it goes back to queue.get().  task_done is called exactly   *)
(* once for every dequeued item, CID or sentinel, so the queue's count of  *)
(* unfinished tasks is the number of enqueued items minus the number of    *)
(* handled ones, is never negative, and is zero only when every item has   *)
(* been handled.                                                           *)
(***************************************************************************)
C26_FaultIsolationAndAccounting ==
    Started =>
        /\ ing.unfinished = Enqueued - Handled
        /\ ing.unfinished = Len(ing.queue) + Cardinality(Busy)
        /\ ing.unfinished >= 0
        /\ ing.unfinished = 0 => (ing.queue = <<>> /\ Busy = {})
        /\ \A k \in Created :
              /\ ing.w[k].pc # "crashed"
              /\ (/\ ing.w[k].trail # <<>>
                  /\ ing.w[k].trail[Len(ing.w[k].trail)].e = "raise"
                  /\ ing.run # "done") => ing.w[k].pc = "get"

\* a worker that caught an exception for one CID has since written the file
\* of a later one
C26_Witness ==
    \E k \in Created :
        /\ ing.w[k].caught >= 1
        /\ Len(ing.w[k].taken) >= 2
        /\ ing.w[k].trail # <<>>
        /\ ing.w[k].trail[Len(ing.w[k].trail)].e = "write"

\* what the handling of a CID did so far, without the limiter blocks and
\* the documents
Steps(trail) == [j \in 1 .. Len(trail) |-> <<trail[j].e, trail[j].what>>]
IsPrefix(s, t) == Len(s) <= Len(t) /\ s = SubSeq(t, 1, Len(s))

\* process_cid from its first request to the last that comes back
FetchSteps ==
    << <<"GET", "record">>, <<"returned", "record">>, <<"write", "raw">>,
       <<"GET", "synonyms">>, <<"returned", "synonyms">>,
       <<"GET", "properties">>, <<"returned", "properties">>,
       <<"GET", "pug_view">>, <<"returned", "pug_view">> >>

Completed ==
    /\ ing.run = "done"
    /\ ing.queue = <<>>
    /\ ing.unfinished = 0
    /\ \A k \in 1 .. ing.concurrency :
          /\ ing.w[k].pc = "exited"
          /\ Cardinality({j \in 1 .. Len(ing.w[k].taken) : ing.w[k].taken[j] = 0}) = 1

\* the sentinels are the tail of the queue: once a worker has taken one, no
\* CID is left on it
SentinelsLast ==
    /\ \A i, j \in 1 .. Len(ing.queue) :
          (i < j /\ ing.queue[i].none) => ing.queue[j].none
    /\ (\E k \in Created : SentinelTaken(k)) =>
          \A j \in 1 .. Len(ing.queue) : ing.queue[j].none

(***************************************************************************)
(* C25: for a finite CID list and concurrency >= 1, under fair scheduling  *)
(* and with every fetch returning or failing, run() eventually completes   *)
(* in both downloaders: every worker dequeues exactly one sentinel and     *)
(* exits, all CIDs are dequeued before any sentinel, and queue.join()      *)
(* returns once every enqueued item has been marked done, whether the      *)
(* CIDs succeed or fail.                                                   *)
(***************************************************************************)
C25_RunTerminates ==
    /\ [](Started => SentinelsLast)
    /\ [](ing.run = "done" => Completed)
    /\ [](ing.run = "join" /\ ing.unfinished = 0 => Handled = Enqueued)
    /\ <>[]Completed

\* run() has returned after a worker caught the failure of a CID
C25_Witness ==
    /\ Completed
    /\ ing.concurrency = MaxWorkers
    /\ \E k \in Created : ing.w[k].caught >= 1
    /\ \E pos \in 1 .. Len(ing.cids) : TimesTaken(pos) = 1

====
